---- MODULE Spec2Model ----
(***************************************************************************)
(* A model of the trade classifier, the stream loop's quote history and    *)
(* the volatility surface's quote store of ysf-ad/greek_processor.         *)
(*                                                                         *)
(* Prices are exact integers (ticks): a comparison the code makes on a     *)
(* float quotient, such as (trade_price - bid) / spread > 0.9, is made     *)
(* here on the cross-multiplied integers, 10 * (trade_price - bid) >       *)
(* 9 * spread, which is the same comparison for exact prices.              *)
(***************************************************************************)
EXTENDS Integers, Sequences, FiniteSets, TLC

VARIABLES
    args,           \* the nine arguments of OptionChainService.classify_trade
    side,           \* what the call returned ("NONE" before the call)
    quote_history,  \* StreamManager.quote_history: contract key -> list of (time, quote)
    clock,          \* the last value time.time() returned to the stream loop
    quota,          \* quotes the feed may still deliver in this behaviour
    last,           \* what the last operation of the stream manager returned or emitted
    reference,      \* the side StreamManager.classify_trade gave each input at the start
    quotes,         \* VolatilitySurface.quotes: root -> {(strike, expiry, right): QuotePoint}
    updates,        \* calls of VolatilitySurface.update_quote so far; datetime.now() of a call
    produced_by,    \* for each stored QuotePoint, the bid and ask it was computed from
    latest,         \* for each contract, its most recent recording that update_quote admitted
    call,           \* the last call on the surface: its arguments, how far it got, its result
    spot_prices,    \* VolatilitySurface.spot_prices: root -> cached spot price (0 for None)
    last_spot_update, \* VolatilitySurface.last_spot_update: root -> time of its last poll
    threads,        \* the threads inside update_quote: their contract and their position
    fit_call,       \* the last call of fit_svi_slice or get_svi_slice and what it returned
    emitted,        \* the trade_received emissions of run(), in the order they were made
    errors,         \* the error_occurred emissions of run() so far
    arrived,        \* for each contract key, every quote the loop received, in arrival order
    inbox,          \* messages the feed may still deliver in this behaviour
    msg,            \* the last pass of the loop of run(): what it received and how it ended
    link,           \* the websocket (closed or not), both running flags, the loop's position
    chart           \* VolatilitySurfaceChart: its selectors, its timer and its active plots

vars == <<args, side, quote_history, clock, quota, last, reference,
          quotes, updates, produced_by, latest,
          call, spot_prices, last_spot_update, threads, fit_call,
          emitted, errors, arrived, inbox, msg, link, chart>>
classify_vars == <<args, side>>
stream_vars == <<quote_history, clock, quota, last, reference>>
surface_vars == <<quotes, updates, produced_by, latest>>
cache_vars == <<spot_prices, last_spot_update>>
thread_vars == <<threads>>
fit_vars == <<fit_call>>
loop_vars == <<emitted, errors, arrived, inbox, msg, link>>
chart_vars == <<chart>>
analytics_vars == <<call, cache_vars, thread_vars, fit_vars, loop_vars, chart_vars>>

\* the receive loop has not started
LoopAtRest ==
    /\ emitted = <<>>
    /\ errors = 0
    /\ arrived = <<>>
    /\ inbox = 0
    /\ msg = [op |-> "none"]
    /\ link = [closed |-> FALSE, running |-> TRUE, ws_running |-> TRUE, loop |-> "looping", turn |-> 0]

\* no chart has been built
ChartAtRest == chart = [op |-> "none"]

----------------------------------------------------------------------------
(* Bounds of the classifier's inputs.                                      *)

\* trade prices are 0 .. MaxPrice ticks
MaxPrice == 31
\* bids and asks lie on the levels 0, QuoteStep, ..., MaxLevel * QuoteStep
QuoteStep == 10
MaxLevel == 3
\* quote sizes are 1 .. MaxSize
MaxSize == 2

Prices == 0 .. MaxPrice
QuoteLevels == { k * QuoteStep : k \in 0 .. MaxLevel }
Sizes == 1 .. MaxSize

ClassifyInputs ==
    [ trade_price : Prices,
      bid : QuoteLevels, ask : QuoteLevels,
      next_bid : QuoteLevels, next_ask : QuoteLevels,
      bid_size : Sizes, ask_size : Sizes,
      next_bid_size : Sizes, next_ask_size : Sizes ]

----------------------------------------------------------------------------
(* OptionChainService.classify_trade, step by step. A step returns "BUY"   *)
(* or "SELL", or "NONE" when the code falls through to the next step.      *)

\* relative_price > num/den, for relative_price as line 100 computes it:
\* (trade_price - bid) / spread if spread > 0 else 0.5
relative_price_above(trade_price, bid, ask, num, den) ==
    IF ask - bid > 0
    THEN den * (trade_price - bid) > num * (ask - bid)
    ELSE den * 5 > num * 10

\* relative_price < num/den
relative_price_below(trade_price, bid, ask, num, den) ==
    IF ask - bid > 0
    THEN den * (trade_price - bid) < num * (ask - bid)
    ELSE den * 5 < num * 10

\* step 1 with the size comparisons the wrong way round
step1_exact_match_grown(trade_price, bid, ask, bid_size, ask_size, next_bid_size, next_ask_size) ==
    IF trade_price = ask /\ ask_size < next_ask_size THEN "BUY"
    ELSE IF trade_price = bid /\ bid_size < next_bid_size THEN "SELL"
    ELSE "NONE"

\* Step 1: exact quote matches with volume change
step1_exact_match(trade_price, bid, ask, bid_size, ask_size, next_bid_size, next_ask_size) ==
    IF trade_price = ask /\ ask_size > next_ask_size THEN "BUY"
    ELSE IF trade_price = bid /\ bid_size > next_bid_size THEN "SELL"
    ELSE "NONE"

\* step 2 without its bid branch
step2_quote_movement_ask_only(bid, ask, next_bid, next_ask) ==
    IF next_ask < ask /\ next_bid = bid THEN "BUY"
    ELSE "NONE"

\* Step 2: quote movement detection
step2_quote_movement(bid, ask, next_bid, next_ask) ==
    IF next_ask < ask /\ next_bid = bid THEN "BUY"
    ELSE IF next_bid > bid /\ next_ask = ask THEN "SELL"
    ELSE "NONE"

\* step 3 without the price-pressure evidence
step3_inside_spread_no_price_pressure(trade_price, bid, ask, next_bid, next_ask, bid_size, ask_size, next_bid_size, next_ask_size) ==
    IF bid < trade_price /\ trade_price < ask
    THEN IF relative_price_above(trade_price, bid, ask, 9, 10) THEN "BUY"
         ELSE IF relative_price_below(trade_price, bid, ask, 1, 10) THEN "SELL"
         ELSE IF next_ask_size < ask_size /\ next_bid_size = bid_size THEN "BUY"
         ELSE IF next_bid_size < bid_size /\ next_ask_size = ask_size THEN "SELL"
         ELSE IF relative_price_above(trade_price, bid, ask, 7, 10) THEN "BUY"
         ELSE IF relative_price_below(trade_price, bid, ask, 3, 10) THEN "SELL"
         ELSE "NONE"
    ELSE "NONE"

\* Step 3: inside-spread trades: near a quote, volume pressure, price
\* pressure, then the 70/30 spread division
step3_inside_spread(trade_price, bid, ask, next_bid, next_ask, bid_size, ask_size, next_bid_size, next_ask_size) ==
    IF bid < trade_price /\ trade_price < ask
    THEN IF relative_price_above(trade_price, bid, ask, 9, 10) THEN "BUY"
         ELSE IF relative_price_below(trade_price, bid, ask, 1, 10) THEN "SELL"
         ELSE IF next_ask_size < ask_size /\ next_bid_size = bid_size THEN "BUY"
         ELSE IF next_bid_size < bid_size /\ next_ask_size = ask_size THEN "SELL"
         ELSE IF next_ask < ask THEN "BUY"
         ELSE IF next_bid > bid THEN "SELL"
         ELSE IF relative_price_above(trade_price, bid, ask, 7, 10) THEN "BUY"
         ELSE IF relative_price_below(trade_price, bid, ask, 3, 10) THEN "SELL"
         ELSE "NONE"
    ELSE "NONE"

\* step 4 with the quotes themselves counted as outside
step4_outside_quotes_inclusive(trade_price, bid, ask) ==
    IF trade_price >= ask THEN "BUY"
    ELSE IF trade_price <= bid THEN "SELL"
    ELSE "NONE"

\* Step 4: trades outside the quotes
step4_outside_quotes(trade_price, bid, ask) ==
    IF trade_price > ask THEN "BUY"
    ELSE IF trade_price < bid THEN "SELL"
    ELSE "NONE"

\* step 5 without its falling-midpoint branch
step5_tick_test_rising_only(bid, ask, next_bid, next_ask) ==
    IF next_bid + next_ask > bid + ask THEN "BUY"
    ELSE "UNKNOWN"

\* Step 5: tick test on the midpoints; (a + b) / 2 compared through a + b
step5_tick_test(bid, ask, next_bid, next_ask) ==
    IF next_bid + next_ask > bid + ask THEN "BUY"
    ELSE IF next_bid + next_ask < bid + ask THEN "SELL"
    ELSE "UNKNOWN"

\* the first step that decides wins
first_of(a, b) == IF a # "NONE" THEN a ELSE b

classify_trade(trade_price, bid, ask, next_bid, next_ask, bid_size, ask_size, next_bid_size, next_ask_size) ==
    first_of(step1_exact_match(trade_price, bid, ask, bid_size, ask_size,
                               next_bid_size, next_ask_size),
    first_of(step2_quote_movement(bid, ask, next_bid, next_ask),
    first_of(step3_inside_spread(trade_price, bid, ask, next_bid, next_ask,
                                 bid_size, ask_size, next_bid_size, next_ask_size),
    first_of(step4_outside_quotes(trade_price, bid, ask),
             step5_tick_test(bid, ask, next_bid, next_ask)))))

----------------------------------------------------------------------------
(* The classifier applied to every input of the bounded domain.            *)

InitClassify ==
    /\ args \in ClassifyInputs
    /\ side = "NONE"
    /\ quote_history = <<>>
    /\ clock = 0
    /\ quota = 0
    /\ last = [op |-> "none"]
    /\ reference = <<>>
    /\ quotes = <<>>
    /\ updates = 0
    /\ produced_by = <<>>
    /\ latest = <<>>
    /\ call = [op |-> "none"]
    /\ spot_prices = <<>>
    /\ last_spot_update = <<>>
    /\ threads = <<>>
    /\ fit_call = [op |-> "none"]
    /\ LoopAtRest
    /\ ChartAtRest

\* one call of OptionChainService.classify_trade on the drawn arguments
ClassifyCall ==
    /\ side = "NONE"
    /\ side' = classify_trade(args.trade_price, args.bid, args.ask,
                              args.next_bid, args.next_ask,
                              args.bid_size, args.ask_size,
                              args.next_bid_size, args.next_ask_size)
    /\ UNCHANGED <<args, stream_vars, surface_vars, analytics_vars>>

NextClassify == ClassifyCall

SpecClassify == InitClassify /\ [][NextClassify]_vars

----------------------------------------------------------------------------
(* The classifier's rules as the specification words them, over the drawn  *)
(* arguments. They are stated from the rule text, not from the steps.      *)

Called == side # "NONE"

\* an orderly market: positive, uncrossed quotes before and after the trade
Orderly ==
    /\ 0 < args.bid /\ args.bid < args.ask
    /\ 0 < args.next_bid /\ args.next_bid < args.next_ask

\* rule 1, ask half: the trade is at the pre-trade ask and the ask size fell
AskLifted == args.trade_price = args.ask /\ args.next_ask_size < args.ask_size
\* rule 1, bid half: the trade is at the pre-trade bid and the bid size fell
BidHit == args.trade_price = args.bid /\ args.next_bid_size < args.bid_size
Rule1Applies == AskLifted \/ BidHit

\* rule 2: one quote moved towards the other while the other stayed
AskMovedDown == args.next_ask < args.ask /\ args.next_bid = args.bid
BidMovedUp == args.next_bid > args.bid /\ args.next_ask = args.ask
Rule2Applies == AskMovedDown \/ BidMovedUp

\* rule 3: the price is strictly inside the spread
Inside == args.bid < args.trade_price /\ args.trade_price < args.ask
\* the relative position (price - bid) / (ask - bid) against p/10, inside the spread
PosAbove(p) == 10 * (args.trade_price - args.bid) > p * (args.ask - args.bid)
PosBelow(p) == 10 * (args.trade_price - args.bid) < p * (args.ask - args.bid)
NearQuote == PosAbove(9) \/ PosBelow(1)
AskSizePressure ==
    args.next_ask_size < args.ask_size /\ args.next_bid_size = args.bid_size
BidSizePressure ==
    args.next_bid_size < args.bid_size /\ args.next_ask_size = args.ask_size
SizePressure == AskSizePressure \/ BidSizePressure
\* the price-pressure evidence the code consults after size pressure
PricePressure == args.next_ask < args.ask \/ args.next_bid > args.bid

\* the tick test of rule 5 on the midpoints (doubled)
MidSum == args.bid + args.ask
NextMidSum == args.next_bid + args.next_ask
TickTest ==
    IF NextMidSum > MidSum THEN "BUY"
    ELSE IF NextMidSum < MidSum THEN "SELL"
    ELSE "UNKNOWN"

\* C1: a trade at the pre-trade ask whose ask size fell is a BUY; a trade at
\* the pre-trade bid whose bid size fell is a SELL unless the ask case matches.
C1_Rule1ExactMatch ==
    Called =>
        /\ AskLifted => side = "BUY"
        /\ (BidHit /\ ~AskLifted) => side = "SELL"

\* C1 witness: the ask was lifted (size fell, bid unchanged) and the call
\* returned BUY although the midpoint fell.
C1_Witness ==
    /\ Orderly
    /\ Called /\ AskLifted /\ side = "BUY"
    /\ args.next_bid = args.bid /\ args.next_bid_size = args.bid_size
    /\ args.next_ask > args.ask

\* C4: when rule 1 does not apply, an ask that moved down with the bid
\* unchanged gives BUY and a bid that moved up with the ask unchanged gives
\* SELL, whatever the trade price and the sizes are.
C4_Rule2QuoteShift ==
    (Called /\ ~Rule1Applies) =>
        /\ AskMovedDown => side = "BUY"
        /\ BidMovedUp => side = "SELL"

\* C4 witness: the bid moved up under a trade above the ask (rule 4 alone
\* would say BUY), and the call returned SELL.
C4_Witness ==
    /\ Orderly
    /\ Called /\ ~Rule1Applies /\ BidMovedUp
    /\ args.trade_price > args.ask
    /\ side = "SELL"

\* the decision the specification gives for a price inside the spread, with
\* nothing between size pressure and the 70/30 division ("ANY": left open)
Rule3AsWritten ==
    IF PosAbove(9) THEN "BUY"
    ELSE IF PosBelow(1) THEN "SELL"
    ELSE IF AskSizePressure THEN "BUY"
    ELSE IF BidSizePressure THEN "SELL"
    ELSE IF PosAbove(7) THEN "BUY"
    ELSE IF PosBelow(3) THEN "SELL"
    ELSE "ANY"

\* the same with the price-pressure evidence between size pressure and 70/30
Rule3WithPricePressure ==
    IF PosAbove(9) THEN "BUY"
    ELSE IF PosBelow(1) THEN "SELL"
    ELSE IF AskSizePressure THEN "BUY"
    ELSE IF BidSizePressure THEN "SELL"
    ELSE IF args.next_ask < args.ask THEN "BUY"
    ELSE IF args.next_bid > args.bid THEN "SELL"
    ELSE IF PosAbove(7) THEN "BUY"
    ELSE IF PosBelow(3) THEN "SELL"
    ELSE "ANY"

Decided1to4 ==
    \/ Rule1Applies
    \/ Rule2Applies
    \/ Inside /\ (NearQuote \/ SizePressure \/ PricePressure
                    \/ PosAbove(7) \/ PosBelow(3))
    \/ args.trade_price > args.ask
    \/ args.trade_price < args.bid

\* C5: when none of rules 1-4 decides, the side is the tick test on the
\* midpoints (rising => BUY, falling => SELL, equal => UNKNOWN), and UNKNOWN is
\* returned only when the midpoints are equal.
C5_Rule5TickTest ==
    Called =>
        /\ ~Decided1to4 => side = TickTest
        /\ side = "UNKNOWN" => NextMidSum = MidSum

\* C5 witness: a trade at the ask, both quotes moved down, no size change:
\* rules 1-4 are silent and the falling midpoint gives SELL.
C5_Witness ==
    /\ Orderly
    /\ Called /\ ~Decided1to4
    /\ args.trade_price = args.ask
    /\ NextMidSum < MidSum
    /\ side = "SELL"

----------------------------------------------------------------------------
(* StreamManager: the quote history, get_quote_context, classify_trade and *)
(* the receive loop. A dict is a function whose domain is its set of keys; *)
(* the empty dict is the function of empty domain, and it is falsy.        *)

\* StreamManager.history_window
history_window == 5

\* quotes the feed delivers in one behaviour
MaxQuotes == 2
\* time.time() runs over 0 .. MaxTime and never goes back
MaxTime == 2

EmptyDict == [f \in {} |-> 0]
Truthy(d) == DOMAIN d # {}
\* d.get(f, default)
Get(d, f, default) == IF f \in DOMAIN d THEN d[f] ELSE default

\* the contracts of the stream: a call and a put of one strike and expiry
Contracts ==
    { [root |-> "X", expiration |-> 20250117, strike |-> 100000, right |-> r] :
        r \in {"C", "P"} }

\* OptionChainService.get_contract_key: the four fields, joined
get_contract_key(contract) ==
    <<contract.root, contract.expiration, contract.strike, contract.right>>

\* the quote dicts the feed delivers: two full quotes and one without fields
StreamQuotes ==
    { EmptyDict, [bid |-> 10, ask |-> 20], [bid |-> 20, ask |-> 30] }

\* the trade dicts the feed delivers: three prices, and one without a price
Trades ==
    { [price |-> p, size |-> 1] : p \in {10, 15, 25} } \cup { [size |-> 1] }

\* the messages the feed delivers: a quote, a trade, or both, for a contract
Messages ==
    { [contract |-> c, quote |-> q] : c \in Contracts, q \in StreamQuotes }
    \cup { [contract |-> c, trade |-> t] : c \in Contracts, t \in Trades }
    \cup { [contract |-> c, quote |-> q, trade |-> t] :
             c \in Contracts, q \in StreamQuotes, t \in Trades }

\* self.quote_history.get(contract_key, [])
quotes_of(history, contract_key) ==
    IF contract_key \in DOMAIN history THEN history[contract_key] ELSE <<>>

\* list.sort(key=lambda x: x[0]): a stable sort on the time of each entry
RECURSIVE sort_by_time(_)
sort_by_time(quote_list) ==
    IF quote_list = <<>> THEN <<>>
    ELSE LET head == sort_by_time(SubSeq(quote_list, 1, Len(quote_list) - 1))
             e == quote_list[Len(quote_list)]
             n == Cardinality({ i \in 1 .. Len(head) : head[i][1] <= e[1] })
         IN  SubSeq(head, 1, n) \o <<e>> \o SubSeq(head, n + 1, Len(head))

SetMax(S) == CHOOSE x \in S : \A y \in S : y <= x
SetMin(S) == CHOOSE x \in S : \A y \in S : x <= y

\* get_quote_context on the sorted list: <<prev_quote, next_quote>>. A quote
\* the search found is dropped for the fallback when it is falsy.
get_quote_context(quote_list, trade_time) ==
    IF quote_list = <<>> THEN <<EmptyDict, EmptyDict>>
    ELSE IF Len(quote_list) = 1 THEN <<quote_list[1][2], quote_list[1][2]>>
    ELSE LET before == { i \in 1 .. Len(quote_list) : quote_list[i][1] <= trade_time }
             after == { i \in 1 .. Len(quote_list) : quote_list[i][1] > trade_time }
             prev_quote ==
                 IF before # {} /\ Truthy(quote_list[SetMax(before)][2])
                 THEN quote_list[SetMax(before)][2]
                 ELSE quote_list[1][2]
             next_quote ==
                 IF after # {} /\ Truthy(quote_list[SetMin(after)][2])
                 THEN quote_list[SetMin(after)][2]
                 ELSE quote_list[Len(quote_list)][2]
         IN  <<prev_quote, next_quote>>

\* the history after get_quote_context: the list of the key is sorted in place
history_after_context(history, contract_key) ==
    IF contract_key \in DOMAIN history
    THEN [history EXCEPT ![contract_key] = sort_by_time(@)]
    ELSE history

\* lines 111-123: the side of a price against one quote; a quote without
\* 'bid' has bid = 0 and a quote without 'ask' has ask = inf
classify_against_quote(price, quote) ==
    LET bid == Get(quote, "bid", 0)
        finite == "ask" \in DOMAIN quote
        ask == Get(quote, "ask", 0)
    IN  IF price <= bid THEN "SELL"
        ELSE IF finite /\ price >= ask THEN "BUY"
        ELSE IF ~finite THEN "SELL"
        ELSE IF ask > bid
             THEN (IF 2 * price >= bid + ask THEN "BUY" ELSE "SELL")
             ELSE "BUY"

\* the classifier without its guard for two missing quotes
stream_classify_trade_unguarded(price, size, prev_quote, next_quote) ==
    classify_against_quote(price, IF Truthy(prev_quote) THEN prev_quote ELSE next_quote)

\* the classifier with its guard on the manager's history, not on its arguments
stream_classify_trade_stateful(price, size, prev_quote, next_quote) ==
    IF quote_history = <<>> THEN "UNKNOWN"
    ELSE classify_against_quote(price,
             IF Truthy(prev_quote) THEN prev_quote ELSE next_quote)

\* StreamManager.classify_trade
stream_classify_trade(price, size, prev_quote, next_quote) ==
    IF ~Truthy(prev_quote) /\ ~Truthy(next_quote) THEN "UNKNOWN"
    ELSE classify_against_quote(price,
             IF Truthy(prev_quote) THEN prev_quote ELSE next_quote)

\* the quote appended, and the newest entry dropped from a list that is too long
append_quote_drop_newest(history, contract_key, current_time, quote) ==
    LET appended == quotes_of(history, contract_key) \o <<<<current_time, quote>>>>
        kept == IF Len(appended) > history_window
                THEN SubSeq(appended, 1, history_window) ELSE appended
    IN  [ k \in DOMAIN history \cup {contract_key} |->
            IF k = contract_key THEN kept ELSE history[k] ]

\* lines 159-165: the quote is appended to the list of its key, and the oldest
\* entry is dropped once the list is longer than history_window
append_quote(history, contract_key, current_time, quote) ==
    LET appended == quotes_of(history, contract_key) \o <<<<current_time, quote>>>>
        kept == IF Len(appended) > history_window THEN Tail(appended) ELSE appended
    IN  [ k \in DOMAIN history \cup {contract_key} |->
            IF k = contract_key THEN kept ELSE history[k] ]

\* what an operation leaves to be observed
Observed(op, key, time, prev, next, trade, result, error) ==
    [ op |-> op, key |-> key, time |-> time, prev |-> prev, next |-> next,
      trade |-> trade, side |-> result, error |-> error ]

\* every input of StreamManager.classify_trade the feed can give rise to
ClassifierInputs ==
    { t.price : t \in { u \in Trades : "price" \in DOMAIN u } }
        \X { t.size : t \in Trades } \X StreamQuotes \X StreamQuotes

InitStream ==
    /\ quote_history = <<>>
    /\ clock = 0
    /\ quota = MaxQuotes
    /\ last = [op |-> "none"]
    /\ reference = <<>>
    /\ quotes = <<>>
    /\ updates = 0
    /\ produced_by = <<>>
    /\ latest = <<>>
    /\ call = [op |-> "none"]
    /\ spot_prices = <<>>
    /\ last_spot_update = <<>>
    /\ threads = <<>>
    /\ fit_call = [op |-> "none"]
    /\ LoopAtRest
    /\ ChartAtRest
    /\ args = [trade_price |-> 0]
    /\ side = "NONE"

\* the same start, with the classifier's answer to every input noted
InitStreamReference ==
    /\ quote_history = <<>>
    /\ clock = 0
    /\ quota = MaxQuotes
    /\ last = [op |-> "none"]
    /\ reference = [ i \in ClassifierInputs |->
                        stream_classify_trade(i[1], i[2], i[3], i[4]) ]
    /\ quotes = <<>>
    /\ updates = 0
    /\ produced_by = <<>>
    /\ latest = <<>>
    /\ call = [op |-> "none"]
    /\ spot_prices = <<>>
    /\ last_spot_update = <<>>
    /\ threads = <<>>
    /\ fit_call = [op |-> "none"]
    /\ LoopAtRest
    /\ ChartAtRest
    /\ args = [trade_price |-> 0]
    /\ side = "NONE"

\* one iteration of the loop of run() on a message with a contract: the quote,
\* if any, is stored; the trade, if any, is classified against the history of
\* its key and emitted; a trade without a price raises, and the error is
\* emitted instead
RecvMessage(data) ==
    /\ "contract" \in DOMAIN data
    /\ "quote" \in DOMAIN data => quota > 0
    /\ LET contract_key == get_contract_key(data.contract)
           current_time == clock
           stored == IF "quote" \in DOMAIN data
                     THEN append_quote(quote_history, contract_key,
                                       current_time, data.quote)
                     ELSE quote_history
       IN  /\ quota' = IF "quote" \in DOMAIN data THEN quota - 1 ELSE quota
           /\ IF "trade" \in DOMAIN data
              THEN LET sorted == history_after_context(stored, contract_key)
                       ctx == get_quote_context(quotes_of(sorted, contract_key),
                                                current_time)
                       trade_data == data.trade
                   IN  /\ quote_history' = sorted
                       /\ IF "price" \in DOMAIN trade_data /\ "size" \in DOMAIN trade_data
                          THEN last' = Observed("trade", contract_key, current_time,
                                           ctx[1], ctx[2], trade_data,
                                           stream_classify_trade(trade_data.price,
                                               trade_data.size, ctx[1], ctx[2]),
                                           FALSE)
                          ELSE last' = Observed("trade", contract_key, current_time,
                                           ctx[1], ctx[2], trade_data, "NONE", TRUE)
              ELSE /\ quote_history' = stored
                   /\ last' = [op |-> "quote"]
    /\ UNCHANGED <<clock, reference, classify_vars, surface_vars, analytics_vars>>

\* one iteration of the loop on a message without 'contract': it is skipped
RecvNoContract ==
    /\ last' = [op |-> "skipped"]
    /\ UNCHANGED <<quote_history, clock, quota, reference, classify_vars, surface_vars, analytics_vars>>

\* a call of get_quote_context with any trade time
GetQuoteContextCall(contract_key, trade_time) ==
    /\ LET sorted == history_after_context(quote_history, contract_key)
           ctx == get_quote_context(quotes_of(sorted, contract_key), trade_time)
       IN  /\ quote_history' = sorted
           /\ last' = Observed("context", contract_key, trade_time,
                               ctx[1], ctx[2], EmptyDict, "NONE", FALSE)
    /\ UNCHANGED <<clock, quota, reference, classify_vars, surface_vars, analytics_vars>>

\* time passes between two iterations of the loop
Tick ==
    /\ clock < MaxTime
    /\ clock' = clock + 1
    /\ UNCHANGED <<quote_history, quota, last, reference, classify_vars, surface_vars, analytics_vars>>

Next ==
    \/ Tick
    \/ \E data \in Messages : RecvMessage(data)
    \/ RecvNoContract
    \/ \E c \in Contracts, t \in 0 .. MaxTime :
           GetQuoteContextCall(get_contract_key(c), t)

Spec == InitStream /\ [][Next]_vars

SpecReference == InitStreamReference /\ [][Next]_vars

----------------------------------------------------------------------------
(* Claims about the stream manager.                                        *)

\* the last operation classified a trade that has a price and a size
Classified ==
    /\ last.op = "trade"
    /\ {"price", "size"} \subseteq DOMAIN last.trade

\* C6: a trade for a contract key with no stored quote gets two empty quotes,
\* is classified UNKNOWN whatever its price and size, and raises no error.
C6_NoQuotesUnknown ==
    (Classified /\ last.key \notin DOMAIN quote_history) =>
        /\ last.prev = EmptyDict /\ last.next = EmptyDict
        /\ last.side = "UNKNOWN"
        /\ ~last.error

\* C6 witness: a trade of a key without quotes was classified UNKNOWN while the
\* other key had a quote stored.
C6_Witness ==
    /\ Classified /\ last.key \notin DOMAIN quote_history
    /\ quote_history # <<>>
    /\ last.side = "UNKNOWN"

\* the last operation searched the non-empty history of its key
Searched ==
    /\ last.op \in {"context", "trade"}
    /\ last.key \in DOMAIN quote_history

SearchedQuotes == quote_history[last.key]
TimesBefore == { SearchedQuotes[i][1] : i \in { j \in DOMAIN SearchedQuotes : SearchedQuotes[j][1] <= last.time } }
TimesAfter == { SearchedQuotes[i][1] : i \in { j \in DOMAIN SearchedQuotes : SearchedQuotes[j][1] > last.time } }
AllTimes == { SearchedQuotes[i][1] : i \in DOMAIN SearchedQuotes }
\* the quotes stored for the key with the given time
QuotesAt(time) == { SearchedQuotes[i][2] : i \in { j \in DOMAIN SearchedQuotes : SearchedQuotes[j][1] = time } }

\* the bracket of the claim: the latest quote at or before the trade time and
\* the earliest after it, each side falling back to the nearest quote of the
\* other side when it has none
BracketBefore ==
    IF TimesBefore # {} THEN QuotesAt(SetMax(TimesBefore))
    ELSE QuotesAt(SetMin(AllTimes))
BracketAfter ==
    IF TimesAfter # {} THEN QuotesAt(SetMin(TimesAfter))
    ELSE QuotesAt(SetMax(AllTimes))

\* C7: for a non-empty history of the key, quote_before is the stored quote
\* with the greatest time <= t and quote_after the stored quote with the
\* smallest time > t; a side without a quote falls back to the earliest
\* (before) or the latest (after) quote of the key.
C7_BracketSearch ==
    Searched => (last.prev \in BracketBefore /\ last.next \in BracketAfter)

\* C7, for histories whose quotes all have at least one field: the bracket
\* search returns the bracket of the claim.
C7_BracketSearchOfNonEmptyQuotes ==
    (Searched /\ \A i \in DOMAIN SearchedQuotes : Truthy(SearchedQuotes[i][2]))
        => (last.prev \in BracketBefore /\ last.next \in BracketAfter)

\* C8: a classification in the loop returns, for its inputs, the side the
\* classifier gave those inputs before anything was recorded or classified
\* (same inputs, same side, whatever happened in between), and a step that
\* classifies a trade and stores no quote leaves the quote history as it was.
C8_SameInputsSameSide ==
    Classified =>
        last.side = reference[<<last.trade.price, last.trade.size,
                                last.prev, last.next>>]

TradeWithHistory ==
    /\ last.op = "trade"
    /\ last.key \in DOMAIN quote_history

\* the quote of the key the loop received last
MostRecentQuote == SearchedQuotes[Len(SearchedQuotes)][2]

\* C29: a trade of the live path is classified at its receipt time, when every
\* stored quote is at or before that time; whenever the history of its key is
\* not empty, get_quote_context gives it the most recently received quote as
\* both quote_before and quote_after.
C29_MostRecentQuoteBothSides ==
    TradeWithHistory =>
        (last.prev = MostRecentQuote /\ last.next = MostRecentQuote)

\* C29, for histories whose quotes all have at least one field
C29_MostRecentOfNonEmptyQuotes ==
    (TradeWithHistory /\ \A i \in DOMAIN SearchedQuotes : Truthy(SearchedQuotes[i][2]))
        => (last.prev = MostRecentQuote /\ last.next = MostRecentQuote)

\* the bracketing quotes of the drawn arguments, as the dicts the live path
\* hands to StreamManager.classify_trade
QuoteBefore ==
    [ bid |-> args.bid, ask |-> args.ask,
      bid_size |-> args.bid_size, ask_size |-> args.ask_size ]
QuoteAfter ==
    [ bid |-> args.next_bid, ask |-> args.next_ask,
      bid_size |-> args.next_bid_size, ask_size |-> args.next_ask_size ]

\* C25: one canonical classifier. For every price, size and pair of
\* bracketing quotes, StreamManager.classify_trade returns the side the
\* five-rule decision order of OptionChainService.classify_trade returns.
C25_OneCanonicalClassifier ==
    Called =>
        \A size \in Sizes :
            stream_classify_trade(args.trade_price, size, QuoteBefore, QuoteAfter) = side

\* both classifiers read the price against the quote before the trade alike
\* where the price is at or beyond a quote of an orderly market and neither
\* rule 1 nor rule 2 of the decision order applies
C25_AgreeOutsideQuotes ==
    (Called /\ Orderly /\ ~Rule1Applies /\ ~Rule2Applies
        /\ (args.trade_price > args.ask \/ args.trade_price < args.bid))
        => stream_classify_trade(args.trade_price, 1, QuoteBefore, QuoteAfter) = side

----------------------------------------------------------------------------
(* VolatilitySurface: the quote store and update_quote. Implied vols are   *)
(* in percent (0.05 is 5, 2.0 is 200) and strikes in thousandths of a      *)
(* dollar (float(strike)/1000 is kept as the integer it was divided from); *)
(* the spot provider and the solver are not computed: a call of either     *)
(* returns any of its outcomes.                                            *)

\* calls of update_quote in one behaviour
MaxUpdates == 3
\* date.today(), as YYYYMMDD
Today == 20250117

\* the contracts quoted: two roots; under X two strikes, a call and a put,
\* two live expiries and one that is over
SurfaceContracts ==
    { [root |-> "X", strike |-> 100000, expiration |-> 20250221, right |-> "C"],
      [root |-> "X", strike |-> 100000, expiration |-> 20250221, right |-> "P"],
      [root |-> "X", strike |-> 100500, expiration |-> 20250221, right |-> "C"],
      [root |-> "X", strike |-> 100000, expiration |-> 20250321, right |-> "C"],
      [root |-> "X", strike |-> 100000, expiration |-> 20250117, right |-> "C"],
      [root |-> "Y", strike |-> 100000, expiration |-> 20250221, right |-> "C"] }

\* contracts that lack one of the four fields update_quote reads
MalformedContracts ==
    { [f \in {"root", "strike", "expiration", "right"} \ {missing} |->
          [root |-> "X", strike |-> 100000, expiration |-> 20250221, right |-> "C"][f]] :
        missing \in {"root", "strike", "expiration", "right"} }

\* the quote dicts recorded: a tight quote, one at a spread of exactly 15%,
\* a crossed one, a wide one, one with a zero bid and one without fields
SurfaceQuotes ==
    { [bid |-> 100, ask |-> 110],
      [bid |-> 37, ask |-> 43], [bid |-> 110, ask |-> 100],
      [bid |-> 100, ask |-> 130], [bid |-> 0, ask |-> 5], EmptyDict }

\* get_current_spot_price of the provider: a price, or 0 for no price (None
\* and 0 are both falsy)
SpotOutcomes == {0, 100}

\* black_scholes_implied_vol: None (bisect raised), or the root bisect found
SolverOutcomes ==
    { [ok |-> FALSE], [ok |-> TRUE, vol |-> 3],
      [ok |-> TRUE, vol |-> 20], [ok |-> TRUE, vol |-> 250] }

\* lines 79-81 and 127: the key of a contract inside the bucket of its root
quote_key(contract) ==
    <<contract.strike, contract.expiration, contract.right>>

\* lines 113-116: T = (expiry - date.today()).days / 365 is not positive
expired(expiration) == expiration <= Today

\* the filters without the spread filter of lines 97-101
passes_quote_filters_no_spread(quote_data) ==
    LET bid == Get(quote_data, "bid", 0)
        ask == Get(quote_data, "ask", 0)
    IN  ~(bid <= 0 \/ ask <= 0)

\* lines 88-101: the quote passes the bid/ask and the spread filters; the
\* spread (ask - bid) / ((ask + bid) / 2) > 0.15 is compared as
\* 40 * (ask - bid) > 3 * (ask + bid), the sum being positive
passes_quote_filters(quote_data) ==
    LET bid == Get(quote_data, "bid", 0)
        ask == Get(quote_data, "ask", 0)
    IN  /\ ~(bid <= 0 \/ ask <= 0)
        /\ ~(40 * (ask - bid) > 3 * (ask + bid))

\* the range check without its upper end
vol_in_range_no_upper(implied_vol) ==
    /\ implied_vol.ok
    /\ ~(implied_vol.vol < 5)

\* lines 121-124: the implied vol is there and within [0.05, 2.0]
vol_in_range(implied_vol) ==
    /\ implied_vol.ok
    /\ ~(implied_vol.vol < 5 \/ implied_vol.vol > 200)

\* lines 87-124: update_quote reaches the line that stores the point
reaches_store(contract, quote_data, spot_price, implied_vol) ==
    /\ passes_quote_filters(quote_data)
    /\ spot_price # 0
    /\ ~expired(contract.expiration)
    /\ vol_in_range(implied_vol)

\* lines 78-81: contract['root'], ['strike'], ['expiration'] and ['right'] are
\* all there; a missing one raises KeyError, outside the try of line 87
has_contract_fields(contract) ==
    {"root", "strike", "expiration", "right"} \subseteq DOMAIN contract

\* lines 78-135: where update_quote ends
update_quote_outcome(contract, quote_data, spot_price, implied_vol) ==
    IF ~has_contract_fields(contract) THEN "raised"
    ELSE IF ~passes_quote_filters(quote_data) THEN "invalid_quote"
    ELSE IF spot_price = 0 THEN "no_spot"
    ELSE IF expired(contract.expiration) THEN "expired"
    ELSE IF ~vol_in_range(implied_vol) THEN "invalid_iv"
    ELSE "stored"

\* lines 83-85: the bucket of the root is created when it is missing
with_bucket(store, root) ==
    IF root \in DOMAIN store THEN store
    ELSE [ r \in DOMAIN store \cup {root} |->
             IF r = root THEN EmptyDict ELSE store[r] ]

\* lines 127-133: self.quotes[root][key] = QuotePoint(...)
store_point(store, root, key, point) ==
    [ store EXCEPT ![root] =
        [ k \in DOMAIN store[root] \cup {key} |->
            IF k = key THEN point ELSE store[root][k] ] ]

\* d[k] = v on a dict
dict_set(d, k, v) == [ x \in DOMAIN d \cup {k} |-> IF x = k THEN v ELSE d[x] ]

InitSurface ==
    /\ quotes = <<>>
    /\ updates = 0
    /\ produced_by = <<>>
    /\ latest = <<>>
    /\ call = [op |-> "none"]
    /\ spot_prices = <<>>
    /\ last_spot_update = <<>>
    /\ threads = <<>>
    /\ fit_call = [op |-> "none"]
    /\ LoopAtRest
    /\ ChartAtRest
    /\ quote_history = <<>>
    /\ clock = 0
    /\ quota = 0
    /\ last = [op |-> "none"]
    /\ reference = <<>>
    /\ args = [trade_price |-> 0]
    /\ side = "NONE"

\* lines 68-69: the root was never polled, or its last poll is more than 1.0 s
\* before now (`late`: what the comparison of line 69 gives for this call's now)
needs_refresh(polled, root, late) == root \notin DOMAIN polled \/ late

\* line 70: self.spot_prices[root] = get_current_spot_price(root), when due
refreshed_prices(prices, polled, root, late, reported) ==
    IF needs_refresh(polled, root, late) THEN dict_set(prices, root, reported) ELSE prices

\* line 71: self.last_spot_update[root] = now, when due (the clock value is
\* not kept: line 69's comparison with it is an input of each call)
refreshed_times(polled, root, late, now) ==
    IF needs_refresh(polled, root, late) THEN dict_set(polled, root, now) ELSE polled

\* a cached price of None replaced by the default
get_spot_price_or_default(prices, root) ==
    IF Get(prices, root, 0) = 0 THEN 590 ELSE prices[root]

\* line 74: self.spot_prices.get(root, 590)
get_spot_price(prices, root) == Get(prices, root, 590)

\* update_quote gets as far as get_spot_price (line 107)
asks_spot(contract, quote_data) ==
    has_contract_fields(contract) /\ passes_quote_filters(quote_data)

\* the spot price update_quote sees when the provider would report `reported`
spot_seen(contract, quote_data, late, reported) ==
    IF asks_spot(contract, quote_data)
    THEN get_spot_price(refreshed_prices(spot_prices, last_spot_update,
                                         contract.root, late, reported), contract.root)
    ELSE 0

\* update_quote(contract, quote_data), with whether the clock is more than
\* 1.0 s past the root's last poll, what the spot provider reports if polled
\* and what the solver returns if called
UpdateQuote(contract, quote_data, late, reported, implied_vol) ==
    /\ updates < MaxUpdates
    /\ updates' = updates + 1
    /\ IF asks_spot(contract, quote_data)
       THEN /\ spot_prices' = refreshed_prices(spot_prices, last_spot_update,
                                               contract.root, late, reported)
            /\ last_spot_update' = refreshed_times(last_spot_update, contract.root,
                                                   late, "now")
       ELSE UNCHANGED cache_vars
    /\ LET spot_price == spot_seen(contract, quote_data, late, reported)
       IN  /\ call' = [ op |-> "update_quote",
                        root |-> Get(contract, "root", ""),
                        malformed |-> DOMAIN contract # {"root", "strike", "expiration", "right"},
                        quote_data |-> quote_data,
                        spot_price |-> spot_price,
                        outcome |-> update_quote_outcome(contract, quote_data,
                                                         spot_price, implied_vol),
                        implied_vol |-> implied_vol ]
           /\ IF ~has_contract_fields(contract)
              THEN UNCHANGED <<quotes, produced_by, latest>>
              ELSE LET root == contract.root
                       key == quote_key(contract)
                       id == get_contract_key(contract)
                       point == [ strike |-> contract.strike,
                                  expiry |-> contract.expiration,
                                  implied_vol |-> implied_vol.vol,
                                  timestamp |-> updates' ]
                   IN  IF reaches_store(contract, quote_data, spot_price, implied_vol)
                       THEN /\ quotes' = store_point(with_bucket(quotes, root), root, key, point)
                            /\ produced_by' = dict_set(produced_by, <<root, key>>,
                                                  [bid |-> quote_data.bid, ask |-> quote_data.ask])
                            /\ latest' = dict_set(latest, id,
                                             [ n |-> updates', implied_vol |-> implied_vol.vol,
                                               uncrossed |->
                                                   IF quote_data.ask >= quote_data.bid
                                                   THEN [n |-> updates', implied_vol |-> implied_vol.vol]
                                                   ELSE IF id \in DOMAIN latest
                                                        THEN latest[id].uncrossed
                                                        ELSE [n |-> 0, implied_vol |-> 0] ])
                       ELSE /\ quotes' = with_bucket(quotes, root)
                            /\ UNCHANGED <<produced_by, latest>>
    /\ UNCHANGED <<classify_vars, stream_vars, thread_vars, fit_vars, loop_vars>>

\* sorted(set(...)): the labels, ascending (YYYYMMDD labels sort as numbers)
RECURSIVE sorted_labels(_)
sorted_labels(S) ==
    IF S = {} THEN <<>>
    ELSE LET least == CHOOSE x \in S : \A y \in S : x <= y
         IN  <<least>> \o sorted_labels(S \ {least})

\* the expiries of every root at once
get_expiries_of_all_roots(store, root) ==
    sorted_labels(UNION { { k[2] : k \in DOMAIN store[r] } : r \in DOMAIN store })

\* lines 140-146: get_expiries(root)
get_expiries(store, root) ==
    IF root \notin DOMAIN store THEN <<>>
    ELSE sorted_labels({ k[2] : k \in DOMAIN store[root] })

\* the roots asked for: the two quoted and one never quoted
QueriedRoots == {"X", "Y", "Z"}

\* a call of get_expiries(root)
GetExpiries(root) ==
    /\ call' = [op |-> "get_expiries", root |-> root, result |-> get_expiries(quotes, root)]
    /\ UNCHANGED <<classify_vars, stream_vars, surface_vars, cache_vars, thread_vars, fit_vars,
                   loop_vars, chart_vars>>

\* the clock is drawn only where line 69 compares it, the provider only where
\* update_quote polls it, the solver only where update_quote calls it
NextSurface ==
    \/ \E root \in QueriedRoots : GetExpiries(root)
    \/ \E contract \in SurfaceContracts \cup MalformedContracts, quote_data \in SurfaceQuotes :
         \E late \in IF /\ asks_spot(contract, quote_data)
                        /\ contract.root \in DOMAIN last_spot_update
                     THEN BOOLEAN ELSE {FALSE} :
           \E reported \in IF /\ asks_spot(contract, quote_data)
                              /\ needs_refresh(last_spot_update, contract.root, late)
                           THEN SpotOutcomes ELSE {0} :
             \E implied_vol \in IF /\ spot_seen(contract, quote_data, late, reported) # 0
                                   /\ ~expired(contract.expiration)
                                THEN SolverOutcomes ELSE {[ok |-> FALSE]} :
                 /\ UpdateQuote(contract, quote_data, late, reported, implied_vol)
                 /\ UNCHANGED chart_vars

SpecSurface == InitSurface /\ [][NextSurface]_vars

----------------------------------------------------------------------------
(* Claims about the quote store.                                           *)

\* the entries of the store, as <<root, key>>
Entries == UNION { { <<r, k>> : k \in DOMAIN quotes[r] } : r \in DOMAIN quotes }

\* the relative spread (ask - bid) / mid of a quote is at most 0.15
SpreadWithinThreshold(q) == 40 * (q.ask - q.bid) <= 3 * (q.ask + q.bid)

\* C9: every entry of the store was produced by a quote with ask >= bid > 0
\* and a relative spread of at most 0.15; a crossed quote or a quote with a
\* non-positive bid never produces a stored entry.
C9_AdmissionInvariant ==
    \A e \in Entries :
        /\ e \in DOMAIN produced_by
        /\ produced_by[e].ask >= produced_by[e].bid
        /\ produced_by[e].bid > 0
        /\ SpreadWithinThreshold(produced_by[e])

\* C9, the part the code keeps: every entry was produced by a quote with a
\* positive bid, a positive ask and a relative spread of at most 0.15.
C9_PositiveAndNotWide ==
    \A e \in Entries :
        /\ e \in DOMAIN produced_by
        /\ produced_by[e].bid > 0 /\ produced_by[e].ask > 0
        /\ SpreadWithinThreshold(produced_by[e])

\* the entry of the store for contract id holds what recording rec wrote
HoldsRecording(id, rec) ==
    \E e \in Entries :
        /\ e[1] = id[1]
        /\ e[2][3] = id[4]
        /\ quotes[e[1]][e[2]].expiry = id[2]
        /\ quotes[e[1]][e[2]].strike = id[3]
        /\ quotes[e[1]][e[2]].timestamp = rec.n
        /\ quotes[e[1]][e[2]].implied_vol = rec.implied_vol

\* the contracts that had a recording admitted: one whose quote has
\* ask >= bid > 0 and a spread within the threshold, and that got an implied
\* vol within the band
AdmittedContracts == { id \in DOMAIN latest : latest[id].uncrossed.n > 0 }

\* C10: the store holds at most one entry per key (root, expiry, strike,
\* right): one for each contract that had a recording admitted and no other,
\* and that entry is the one derived from the most recent admitted recording
\* of that contract, whatever was recorded for other contracts.
C10_LastAdmittedWins ==
    /\ Cardinality(Entries) = Cardinality(AdmittedContracts)
    /\ \A id \in AdmittedContracts : HoldsRecording(id, latest[id].uncrossed)

\* C10, the part the code keeps: the store holds one entry for each contract
\* that had a recording reach the storing line and no other, and that entry is
\* the one the most recent such recording wrote.
C10_LastStoredWins ==
    /\ Cardinality(Entries) = Cardinality(DOMAIN latest)
    /\ \A id \in DOMAIN latest : HoldsRecording(id, latest[id])

\* the last operation was a call of update_quote that ended as given
Ended(outcome) == call.op = "update_quote" /\ call.outcome = outcome

\* C12: a call of update_quote on a contract that lacks root, strike,
\* expiration or right stores nothing and raises no exception to its caller.
C12_MalformedRejectedSilently ==
    [][ (call'.op = "update_quote" /\ updates' # updates /\ call'.malformed)
            => (quotes' = quotes /\ call'.outcome # "raised") ]_vars

\* a step is a call of update_quote
UpdateQuoteStep == call'.op = "update_quote" /\ updates' # updates

\* the step adds no point and overwrites none: every bucket keeps its content
\* and a bucket that is new is the empty bucket of the root of the call
StoresNoPoint ==
    /\ \A r \in DOMAIN quotes : r \in DOMAIN quotes' /\ quotes'[r] = quotes[r]
    /\ DOMAIN quotes' \subseteq DOMAIN quotes \cup {call'.root}
    /\ \A r \in DOMAIN quotes' \ DOMAIN quotes : quotes'[r] = EmptyDict

\* the quote has a non-positive bid or ask, or a relative spread above 0.15
EconomicallyInvalid(q) ==
    \/ Get(q, "bid", 0) <= 0
    \/ Get(q, "ask", 0) <= 0
    \/ 40 * (Get(q, "ask", 0) - Get(q, "bid", 0)) > 3 * (Get(q, "ask", 0) + Get(q, "bid", 0))

\* C13: an economically invalid quote passed to update_quote leaves the whole
\* store unchanged: no entry is added or overwritten, and no new root bucket
\* or key appears.
C13_Original ==
    [][ (UpdateQuoteStep /\ ~call'.malformed /\ EconomicallyInvalid(call'.quote_data))
            => quotes' = quotes ]_vars

\* C13, the part the code keeps: an economically invalid quote adds no entry
\* and overwrites none; every bucket there was keeps its content, and the only
\* change to the store can be a new, empty bucket for the root of the quote.
C13_InvalidQuoteStoresNothing ==
    [][ (UpdateQuoteStep /\ ~call'.malformed /\ EconomicallyInvalid(call'.quote_data))
            => StoresNoPoint ]_vars

\* an economically invalid quote was just passed for a root that has entries
InvalidQuoteOnKnownRoot ==
    /\ call.op = "update_quote" /\ ~call.malformed
    /\ EconomicallyInvalid(call.quote_data)
    /\ call.root \in DOMAIN quotes
    /\ quotes[call.root] # EmptyDict

\* the implied vol lies in the sanity band [0.05, 2.0]
InBand(vol) == 5 <= vol /\ vol <= 200

\* the call reached the solver (line 119)
SolverConsulted ==
    call.op = "update_quote" /\ call.outcome \in {"invalid_iv", "stored"}

\* every stored point has an implied vol, and one inside the band
StoredVolsInBand ==
    \A e \in Entries : InBand(quotes[e[1]][e[2]].implied_vol)

\* C14 as stated: whenever the solver has no volatility to give or the
\* volatility lies outside the sanity band, the solver itself returns FAILURE,
\* and no stored point has an undefined, zero or out-of-band implied vol.
C14_Original ==
    /\ SolverConsulted /\ call.implied_vol.ok => InBand(call.implied_vol.vol)
    /\ StoredVolsInBand

\* C14: the solver returns FAILURE as a value when it finds no volatility and
\* returns the volatility it finds otherwise, in or out of the band; when it
\* returns FAILURE or a volatility outside the band, update_quote stores no
\* point, so that no stored point ever has an undefined, zero or out-of-band
\* implied vol.
C14_FailureStoresNothing ==
    /\ []StoredVolsInBand
    /\ [][ (UpdateQuoteStep /\ call'.outcome \in {"invalid_iv", "stored"}
              /\ (~call'.implied_vol.ok \/ ~InBand(call'.implied_vol.vol)))
            => (StoresNoPoint /\ call'.outcome = "invalid_iv") ]_vars

\* C14 witness: the solver was consulted for a root that has points and gave
\* a volatility outside the band.
C14_Witness ==
    /\ SolverConsulted
    /\ call.implied_vol.ok /\ ~InBand(call.implied_vol.vol)
    /\ call.root \in DOMAIN quotes /\ quotes[call.root] # EmptyDict

\* the call got as far as computing the time to expiry (line 113): the
\* contract was well formed, the quote passed the filters and a spot was there
ReachedTimeToExpiry ==
    call.op = "update_quote" /\ call.outcome \in {"expired", "invalid_iv", "stored"}

\* C16: every quote that gets as far as the time to expiry is handed to the IV
\* solver, with the time to expiry floored to a strictly positive minimum; a
\* quote whose raw time to expiry is zero or negative is solved with the floor,
\* not dropped.
C16_ZeroDteSolvedWithFloor ==
    ReachedTimeToExpiry => SolverConsulted

\* the expiries of the points the store holds for the root
StoredExpiries(root) ==
    { quotes[e[1]][e[2]].expiry : e \in { x \in Entries : x[1] = root } }

\* the list is strictly ascending
StrictlyAscending(list) ==
    \A i, j \in 1 .. Len(list) : i < j => list[i] < list[j]

\* C19: get_expiries(root) returns, ascending and without duplicates, exactly
\* the expiry labels for which the store holds a point of that root, and the
\* empty list for an unknown root; so every expiry of the root that had a
\* quote stored is in the list.
C19_GetExpiries ==
    call.op = "get_expiries" =>
        /\ { call.result[i] : i \in 1 .. Len(call.result) } = StoredExpiries(call.root)
        /\ StrictlyAscending(call.result)
        /\ call.root \notin DOMAIN quotes => call.result = <<>>
        /\ \A id \in DOMAIN latest :
              id[1] = call.root => \E i \in 1 .. Len(call.result) : call.result[i] = id[2]

\* C19 witness: get_expiries was called for a root with three points on two
\* expiries and returned the two.
C19_Witness ==
    /\ call.op = "get_expiries"
    /\ Len(call.result) = 2
    /\ Cardinality({ x \in Entries : x[1] = call.root }) = 3

\* the last report of the spot provider for the root, as the cache holds it
\* after the step, is "no price"
ReportsNoPrice(root) ==
    root \in DOMAIN spot_prices' /\ spot_prices'[root] = 0

----------------------------------------------------------------------------
(* update_quote entered by several threads at once. The method takes no    *)
(* lock; the interpreter may switch threads between the test of line 84,   *)
(* the assignment of line 85 and the store of line 127. Every submission   *)
(* here passes the filters of lines 87-124, which touch no shared state.   *)

\* threads inside update_quote at once
MaxThreads == 2

ThreadIds == 1 .. MaxThreads

\* the contracts submitted: the live ones
ThreadContracts == { c \in SurfaceContracts : ~expired(c.expiration) }

\* the implied vol the solver gives the submission of thread t
thread_vol(t) == 10 + t

\* line 85: self.quotes[root] = {}
new_bucket(store, root) == dict_set(store, root, EmptyDict)

\* every thread is about to enter update_quote, each with a contract of its own
InitThreads ==
    /\ threads \in { f \in [ThreadIds -> [pc : {"check"}, contract : ThreadContracts]] :
                       \A t, u \in ThreadIds : t # u => f[t].contract # f[u].contract }
    /\ quotes = <<>>
    /\ updates = 0
    /\ produced_by = <<>>
    /\ latest = <<>>
    /\ call = [op |-> "none"]
    /\ spot_prices = <<>>
    /\ last_spot_update = <<>>
    /\ fit_call = [op |-> "none"]
    /\ LoopAtRest
    /\ ChartAtRest
    /\ quote_history = <<>>
    /\ clock = 0
    /\ quota = 0
    /\ last = [op |-> "none"]
    /\ reference = <<>>
    /\ args = [trade_price |-> 0]
    /\ side = "NONE"

\* line 84: if root not in self.quotes
CheckBucket(t) ==
    /\ threads[t].pc = "check"
    /\ threads' = [threads EXCEPT ![t].pc =
                     IF threads[t].contract.root \in DOMAIN quotes
                     THEN "store" ELSE "create"]
    /\ UNCHANGED <<classify_vars, stream_vars, surface_vars, call, cache_vars, fit_vars,
                   loop_vars, chart_vars>>

\* line 85: the thread found no bucket and assigns an empty one
CreateBucket(t) ==
    /\ threads[t].pc = "create"
    /\ quotes' = new_bucket(quotes, threads[t].contract.root)
    /\ threads' = [threads EXCEPT ![t].pc = "store"]
    /\ UNCHANGED <<classify_vars, stream_vars, updates, produced_by, latest,
                   call, cache_vars, fit_vars, loop_vars, chart_vars>>

\* lines 127-133: the thread stores its point and returns
StorePoint(t) ==
    /\ threads[t].pc = "store"
    /\ updates' = updates + 1
    /\ LET contract == threads[t].contract
           point == [ strike |-> contract.strike,
                      expiry |-> contract.expiration,
                      implied_vol |-> thread_vol(t),
                      timestamp |-> updates' ]
       IN  quotes' = store_point(quotes, contract.root, quote_key(contract), point)
    /\ threads' = [threads EXCEPT ![t].pc = "done"]
    /\ UNCHANGED <<classify_vars, stream_vars, produced_by, latest,
                   call, cache_vars, fit_vars, loop_vars, chart_vars>>

NextThreads ==
    \E t \in ThreadIds : CheckBucket(t) \/ CreateBucket(t) \/ StorePoint(t)

SpecThreads == InitThreads /\ [][NextThreads]_vars

\* every thread has returned from update_quote
AllReturned == \A t \in ThreadIds : threads[t].pc = "done"

\* the store holds the point thread t submitted under the key of its contract
HoldsSubmission(t) ==
    LET contract == threads[t].contract
    IN  /\ contract.root \in DOMAIN quotes
        /\ quote_key(contract) \in DOMAIN quotes[contract.root]
        /\ quotes[contract.root][quote_key(contract)].implied_vol = thread_vol(t)

\* C11: once N concurrent submissions for N distinct keys have all returned,
\* whatever the interleaving of their steps, a read of the whole store finds
\* exactly the N keys, each with the value submitted for it: none is lost and
\* none is duplicated.
C11_NoLostUpdate ==
    AllReturned =>
        /\ \A t \in ThreadIds : HoldsSubmission(t)
        /\ Cardinality(Entries) = MaxThreads

----------------------------------------------------------------------------
(* option_greeks: fit_svi_slice and get_svi_slice. A trade is its strike   *)
(* and its implied vol (the third field of the tuple is not read). A mean  *)
(* is kept exact, as the pair <<sum, count>>. The minimiser is not         *)
(* computed: it succeeds or it does not. The observations are collected in *)
(* strike order; neither function reads the order of its input (len, the   *)
(* grouping by strike and sorted() do not).                                *)

\* observations in one input
MaxObs == 6
\* the strikes observed are 1 .. MaxStrike
MaxStrike == 5

FitStrikes == 1 .. MaxStrike
FitVols == {10, 40}

RECURSIVE seq_sum(_)
seq_sum(list) == IF list = <<>> THEN 0 ELSE Head(list) + seq_sum(Tail(list))

\* np.mean(iv_list)
np_mean(iv_list) == <<seq_sum(iv_list), Len(iv_list)>>

\* np.median(iv_list), for comparison
RECURSIVE sorted_vols(_)
sorted_vols(list) ==
    IF list = <<>> THEN <<>>
    ELSE LET i == CHOOSE j \in 1 .. Len(list) : \A k \in 1 .. Len(list) : list[j] <= list[k]
         IN  <<list[i]>> \o sorted_vols(SubSeq(list, 1, i - 1) \o SubSeq(list, i + 1, Len(list)))

np_median(iv_list) ==
    LET sorted == sorted_vols(iv_list)
        n == Len(iv_list)
    IN  IF n % 2 = 1 THEN <<sorted[(n + 1) \div 2], 1>>
        ELSE <<sorted[n \div 2] + sorted[n \div 2 + 1], 2>>

\* lines 147-152: unique_trades[strike], the ivs of the trades at the strike
iv_list_of(trades, strike) ==
    LET at_strike == SelectSeq(trades, LAMBDA t : t[1] = strike)
    IN  [ i \in 1 .. Len(at_strike) |-> at_strike[i][2] ]

\* sorted(unique_trades.items()): the strikes, ascending
RECURSIVE ascending(_)
ascending(S) ==
    IF S = {} THEN <<>> ELSE <<SetMin(S)>> \o ascending(S \ {SetMin(S)})

\* lines 154-158: the strikes and the ivs get_svi_slice hands to the fit
aggregated(trades) ==
    LET strikes == ascending({ trades[i][1] : i \in 1 .. Len(trades) })
    IN  [ strikes |-> strikes,
          ivs |-> [ i \in 1 .. Len(strikes) |-> np_mean(iv_list_of(trades, strikes[i])) ] ]

\* lines 50-139: fit_svi_slice
fit_svi_slice(strikes, ivs, minimized) ==
    IF Len(strikes) < 5 THEN "None"
    ELSE IF minimized THEN "SVIParams" ELSE "None"

\* lines 141-160: get_svi_slice
get_svi_slice(trades, minimized) ==
    IF Len(trades) < 5 THEN "None"
    ELSE fit_svi_slice(aggregated(trades).strikes, aggregated(trades).ivs, minimized)

InitFit ==
    /\ fit_call = [op |-> "none", trades |-> <<>>]
    /\ LoopAtRest
    /\ ChartAtRest
    /\ quotes = <<>>
    /\ updates = 0
    /\ produced_by = <<>>
    /\ latest = <<>>
    /\ call = [op |-> "none"]
    /\ spot_prices = <<>>
    /\ last_spot_update = <<>>
    /\ threads = <<>>
    /\ quote_history = <<>>
    /\ clock = 0
    /\ quota = 0
    /\ last = [op |-> "none"]
    /\ reference = <<>>
    /\ args = [trade_price |-> 0]
    /\ side = "NONE"

\* the caller collects one more observation
Observe(strike, iv) ==
    /\ fit_call.op = "none"
    /\ Len(fit_call.trades) < MaxObs
    /\ fit_call.trades # <<>> => strike >= fit_call.trades[Len(fit_call.trades)][1]
    /\ fit_call' = [fit_call EXCEPT !.trades = Append(@, <<strike, iv>>)]
    /\ UNCHANGED <<classify_vars, stream_vars, surface_vars, call, cache_vars, thread_vars,
                   loop_vars, chart_vars>>

\* fit_svi_slice(strikes, ivs, spot) on the observations as they are
FitSviSliceCall(minimized) ==
    /\ fit_call.op = "none"
    /\ LET trades == fit_call.trades
           strikes == [ i \in 1 .. Len(trades) |-> trades[i][1] ]
           ivs == [ i \in 1 .. Len(trades) |-> <<trades[i][2], 1>> ]
       IN  fit_call' = [ op |-> "fit_svi_slice", trades |-> trades,
                         strikes |-> strikes, ivs |-> ivs,
                         result |-> fit_svi_slice(strikes, ivs, minimized) ]
    /\ UNCHANGED <<classify_vars, stream_vars, surface_vars, call, cache_vars, thread_vars,
                   loop_vars, chart_vars>>

\* get_svi_slice(trades, spot)
GetSviSliceCall(minimized) ==
    /\ fit_call.op = "none"
    /\ LET trades == fit_call.trades
           handed == IF Len(trades) < 5 THEN [strikes |-> <<>>, ivs |-> <<>>]
                     ELSE aggregated(trades)
       IN  fit_call' = [ op |-> "get_svi_slice", trades |-> trades,
                         strikes |-> handed.strikes, ivs |-> handed.ivs,
                         result |-> get_svi_slice(trades, minimized) ]
    /\ UNCHANGED <<classify_vars, stream_vars, surface_vars, call, cache_vars, thread_vars,
                   loop_vars, chart_vars>>

NextFit ==
    \/ \E strike \in FitStrikes, iv \in FitVols : Observe(strike, iv)
    \/ \E minimized \in BOOLEAN : FitSviSliceCall(minimized)
    \/ \E minimized \in BOOLEAN : GetSviSliceCall(minimized)

SpecFit == InitFit /\ [][NextFit]_vars

\* the distinct strikes of the observations given to the last call
DistinctStrikes == { fit_call.trades[i][1] : i \in 1 .. Len(fit_call.trades) }

\* C17: a fit on observations with fewer than 5 distinct strikes returns null,
\* however many observations there are, whether entered through fit_svi_slice
\* or through get_svi_slice.
C17_FewDistinctStrikesNull ==
    (fit_call.op \in {"fit_svi_slice", "get_svi_slice"} /\ Cardinality(DistinctStrikes) < 5)
        => fit_call.result = "None"

\* C17, the part the code keeps: entered through get_svi_slice, a fit on fewer
\* than 5 distinct strikes returns null; entered through fit_svi_slice, a fit
\* on fewer than 5 observations does.
C17_NullThroughGetSviSlice ==
    /\ (fit_call.op = "get_svi_slice" /\ Cardinality(DistinctStrikes) < 5)
          => fit_call.result = "None"
    /\ (fit_call.op = "fit_svi_slice" /\ Len(fit_call.trades) < 5)
          => fit_call.result = "None"

\* two exact quotients are equal
SameValue(a, b) == a[1] * b[2] = b[1] * a[2]

\* the fit was reached from get_svi_slice
HandedToFit == fit_call.op = "get_svi_slice" /\ Len(fit_call.trades) >= 5

\* each distinct strike is handed to the fit exactly once
EachStrikeOnce ==
    /\ { fit_call.strikes[i] : i \in 1 .. Len(fit_call.strikes) } = DistinctStrikes
    /\ \A i, j \in 1 .. Len(fit_call.strikes) :
          fit_call.strikes[i] = fit_call.strikes[j] => i = j

\* C18: when get_svi_slice hands observations to the fit, each distinct strike
\* is handed exactly once, and the value handed for a strike is the median of
\* the observations at that strike.
C18_MedianPerStrike ==
    HandedToFit =>
        /\ EachStrikeOnce
        /\ \A i \in 1 .. Len(fit_call.strikes) :
              SameValue(fit_call.ivs[i],
                        np_median(iv_list_of(fit_call.trades, fit_call.strikes[i])))

\* C18, the part the code keeps: each distinct strike is handed exactly once,
\* with the mean of the observations at that strike.
C18_MeanPerStrike ==
    HandedToFit =>
        /\ EachStrikeOnce
        /\ \A i \in 1 .. Len(fit_call.strikes) :
              SameValue(fit_call.ivs[i],
                        <<seq_sum(iv_list_of(fit_call.trades, fit_call.strikes[i])),
                          Len(iv_list_of(fit_call.trades, fit_call.strikes[i]))>>)

----------------------------------------------------------------------------
(* StreamManager.run: the receive loop, pass by pass, with what it emits.   *)
(* A pass is one turn of the while loop of lines 142-193: the test of       *)
(* self.running, recv(), json.loads and the handling of the message.        *)

\* messages the feed delivers in one behaviour of the loop
MaxMessages == 4
\* quotes and trades the feed delivers in one behaviour of the quote history
MaxArrivals == 7
\* the count of error reports is kept up to one more than the messages
MaxErrors == MaxMessages + 1

\* the contract of the loop's messages, as a call or as a put
LoopContract(right) ==
    [root |-> "X", expiration |-> 20250117, strike |-> 100000, right |-> right]

\* what recv() returns: a payload json.loads decodes to a dict, or one it
\* rejects
Decoded(data) == [ok |-> TRUE, data |-> data]
Undecodable == [ok |-> FALSE]

\* the payloads of the loop: a quote, a trade, a trade without a price, a
\* quote together with a trade without a size, a dict without 'contract', and
\* an undecodable payload
LoopMessages ==
    { Decoded([contract |-> LoopContract("C"), quote |-> [bid |-> 10, ask |-> 20]]),
      Decoded([contract |-> LoopContract("C"), trade |-> [price |-> 15, size |-> 1]]),
      Decoded([contract |-> LoopContract("P"), trade |-> [price |-> 10, size |-> 1]]),
      Decoded([contract |-> LoopContract("C"), trade |-> [size |-> 1]]),
      Decoded([contract |-> LoopContract("C"), quote |-> [bid |-> 20, ask |-> 30],
               trade |-> [price |-> 25]]),
      Decoded([header |-> "status"]),
      Undecodable }

\* the payloads of the quote history: two quotes of one key, a quote of
\* another key, and a trade
HistoryMessages ==
    { Decoded([contract |-> LoopContract("C"), quote |-> [bid |-> 10, ask |-> 20]]),
      Decoded([contract |-> LoopContract("C"), quote |-> [bid |-> 20, ask |-> 30]]),
      Decoded([contract |-> LoopContract("P"), quote |-> [bid |-> 10, ask |-> 20]]),
      Decoded([contract |-> LoopContract("C"), trade |-> [price |-> 15, size |-> 1]]) }

\* the message has the key
Has(response, field) == response.ok /\ field \in DOMAIN response.data

\* lines 145-187 raise on this payload: json.loads rejects it, or the trade
\* lacks 'price' or 'size'
raises(response) ==
    \/ ~response.ok
    \/ /\ Has(response, "contract") /\ Has(response, "trade")
       /\ ~({"price", "size"} \subseteq DOMAIN response.data.trade)

\* lines 159-165 on the message of the pass
history_after_quote(history, response, current_time) ==
    IF Has(response, "contract") /\ Has(response, "quote")
    THEN append_quote(history, get_contract_key(response.data.contract),
                      current_time, response.data.quote)
    ELSE history

\* lines 159-173 on the message of the pass: the quote is stored, and the
\* list of the key is sorted by the get_quote_context of a trade
history_after_pass(history, response, current_time) ==
    LET stored == history_after_quote(history, response, current_time)
    IN  IF Has(response, "contract") /\ Has(response, "trade")
        THEN history_after_context(stored, get_contract_key(response.data.contract))
        ELSE stored

\* lines 173-182: data['trade'].copy() with its 'side'
classified_trade(history, response, current_time) ==
    LET contract_key == get_contract_key(response.data.contract)
        ctx == get_quote_context(quotes_of(history, contract_key), current_time)
        trade_data == response.data.trade
    IN  [ price |-> trade_data.price, size |-> trade_data.size,
          side |-> stream_classify_trade(trade_data.price, trade_data.size,
                                         ctx[1], ctx[2]) ]

\* the trade emitted twice
emit_trade_received_twice(log, contract, trade_data) ==
    log \o << [contract |-> contract, trade |-> trade_data],
              [contract |-> contract, trade |-> trade_data] >>

\* line 187: self.trade_received.emit(data['contract'], trade_data)
emit_trade_received(log, contract, trade_data) ==
    Append(log, [contract |-> contract, trade |-> trade_data])

\* the handler of a failed pass leaving the loop
after_message_error_stop(lnk) == [lnk EXCEPT !.loop = "exited"]

\* lines 189-193: the except clause is inside the while loop; the loop goes on
after_message_error(lnk) == lnk

\* line 190: error_occurred.emit
emit_error_occurred(count) == IF count < MaxErrors THEN count + 1 ELSE count

\* every quote the loop received for the key, with this one
with_arrival(log, response, current_time) ==
    IF Has(response, "contract") /\ Has(response, "quote")
    THEN LET contract_key == get_contract_key(response.data.contract)
         IN  [ k \in DOMAIN log \cup {contract_key} |->
                 IF k = contract_key
                 THEN (IF k \in DOMAIN log THEN log[k] ELSE <<>>)
                          \o << <<current_time, response.data.quote>> >>
                 ELSE log[k] ]
    ELSE log

InitLoop ==
    /\ quote_history = <<>>
    /\ clock = 0
    /\ quota = 0
    /\ last = [op |-> "none"]
    /\ reference = <<>>
    /\ quotes = <<>>
    /\ updates = 0
    /\ produced_by = <<>>
    /\ latest = <<>>
    /\ call = [op |-> "none"]
    /\ spot_prices = <<>>
    /\ last_spot_update = <<>>
    /\ threads = <<>>
    /\ fit_call = [op |-> "none"]
    /\ args = [trade_price |-> 0]
    /\ side = "NONE"
    /\ emitted = <<>>
    /\ errors = 0
    /\ arrived = <<>>
    /\ inbox = MaxMessages
    /\ msg = [op |-> "none"]
    /\ link = [closed |-> FALSE, running |-> TRUE, ws_running |-> TRUE, loop |-> "looping", turn |-> 0]
    /\ ChartAtRest

\* the same start, with the feed of the quote history
InitHistory ==
    /\ quote_history = <<>>
    /\ clock = 0
    /\ quota = 0
    /\ last = [op |-> "none"]
    /\ reference = <<>>
    /\ quotes = <<>>
    /\ updates = 0
    /\ produced_by = <<>>
    /\ latest = <<>>
    /\ call = [op |-> "none"]
    /\ spot_prices = <<>>
    /\ last_spot_update = <<>>
    /\ threads = <<>>
    /\ fit_call = [op |-> "none"]
    /\ args = [trade_price |-> 0]
    /\ side = "NONE"
    /\ emitted = <<>>
    /\ errors = 0
    /\ arrived = <<>>
    /\ inbox = MaxArrivals
    /\ msg = [op |-> "none"]
    /\ link = [closed |-> FALSE, running |-> TRUE, ws_running |-> TRUE, loop |-> "looping", turn |-> 0]
    /\ ChartAtRest

\* one pass of the loop on an open connection: recv() returns a payload
Pass(response) ==
    /\ link.loop = "looping"
    /\ ~link.closed
    /\ inbox > 0
    /\ IF ~link.running
       THEN /\ link' = [link EXCEPT !.loop = "exited"]
            /\ msg' = [op |-> "exit"]
            /\ UNCHANGED <<quote_history, emitted, errors, arrived, inbox>>
       ELSE /\ inbox' = inbox - 1
            /\ quote_history' = IF response.ok
                                THEN history_after_pass(quote_history, response, clock)
                                ELSE quote_history
            /\ arrived' = with_arrival(arrived, response, clock)
            /\ IF raises(response)
               THEN /\ errors' = emit_error_occurred(errors)
                    /\ link' = after_message_error(link)
                    /\ msg' = [op |-> "pass", response |-> response, outcome |-> "error"]
                    /\ UNCHANGED emitted
               ELSE /\ emitted' =
                         IF Has(response, "contract") /\ Has(response, "trade")
                         THEN emit_trade_received(emitted, response.data.contract,
                                  classified_trade(quote_history', response, clock))
                         ELSE emitted
                    /\ msg' = [op |-> "pass", response |-> response,
                               outcome |-> IF ~Has(response, "contract") THEN "skipped"
                                           ELSE IF Has(response, "trade") THEN "emitted"
                                           ELSE "stored"]
                    /\ UNCHANGED <<errors, link>>
    /\ UNCHANGED <<clock, quota, last, reference, classify_vars, surface_vars,
                   call, cache_vars, thread_vars, fit_vars, chart_vars>>

\* one pass of the loop on a closed connection: recv() raises, the except
\* clause of line 189 reports the error; `turn` is the parity of the passes
\* made on the closed connection, so that every such pass is a step
PassOnClosed ==
    /\ link.loop = "looping"
    /\ link.closed
    /\ IF ~link.running
       THEN /\ link' = [link EXCEPT !.loop = "exited"]
            /\ msg' = [op |-> "exit"]
            /\ UNCHANGED errors
       ELSE /\ errors' = emit_error_occurred(errors)
            /\ link' = [after_message_error(link) EXCEPT !.turn = 1 - @]
            /\ msg' = [op |-> "pass", response |-> Undecodable, outcome |-> "closed"]
    /\ UNCHANGED <<quote_history, emitted, arrived, inbox>>
    /\ UNCHANGED <<clock, quota, last, reference, classify_vars, surface_vars,
                   call, cache_vars, thread_vars, fit_vars, chart_vars>>

\* WebSocketManager.close(), called from the GUI thread at aboutToQuit
Close ==
    /\ ~link.closed
    /\ link' = [link EXCEPT !.ws_running = FALSE, !.closed = TRUE]
    /\ UNCHANGED <<quote_history, emitted, errors, arrived, inbox, msg>>
    /\ UNCHANGED <<clock, quota, last, reference, classify_vars, surface_vars,
                   call, cache_vars, thread_vars, fit_vars, chart_vars>>

NextLoop ==
    \/ Tick
    \/ \E response \in LoopMessages : Pass(response)
    \/ PassOnClosed
    \/ Close

SpecLoop == InitLoop /\ [][NextLoop]_vars

\* the loop thread keeps running while it has a pass to make
SpecShutdown ==
    InitLoop /\ [][NextLoop]_vars /\ WF_vars(PassOnClosed)

NextHistory ==
    \/ Tick
    \/ \E response \in HistoryMessages : Pass(response)

SpecHistory == InitHistory /\ [][NextHistory]_vars

----------------------------------------------------------------------------
(* Claims about the receive loop.                                          *)

\* the step is a pass of the loop that received a payload
ReceivedStep == msg'.op = "pass" /\ inbox' # inbox

\* the payload received by the step is a trade message
TradeStep == ReceivedStep /\ Has(msg'.response, "contract") /\ Has(msg'.response, "trade")

\* the trade of the payload has a price and a size
WellFormedTrade(response) == {"price", "size"} \subseteq DOMAIN response.data.trade

\* the step adds exactly one emission, for the trade of its payload, with a side
EmitsOnce ==
    /\ Len(emitted') = Len(emitted) + 1
    /\ LET e == emitted'[Len(emitted')]
       IN  /\ e.contract = msg'.response.data.contract
           /\ e.trade.price = msg'.response.data.trade.price
           /\ e.trade.size = msg'.response.data.trade.size
           /\ e.trade.side \in {"BUY", "SELL", "UNKNOWN"}

\* what was emitted stays as it was emitted, in the order it was emitted
EmissionsKept ==
    /\ Len(emitted') >= Len(emitted)
    /\ \A i \in DOMAIN emitted : emitted'[i] = emitted[i]

\* C21 as stated: every trade message the loop receives produces exactly one
\* trade_received emission carrying a side in {BUY, SELL, UNKNOWN}, in arrival
\* order, and an emitted side never changes.
C21_Original ==
    [][/\ EmissionsKept
       /\ TradeStep => EmitsOnce
       /\ ~TradeStep => emitted' = emitted]_vars

\* C21: every trade message with a price and a size that the loop receives
\* produces exactly one trade_received emission, carrying the trade and a side
\* in {BUY, SELL, UNKNOWN}, appended after the emissions of the trades that
\* arrived before it; no other pass emits a trade (a trade without price or
\* size is reported as an error and emits nothing); an emission is never
\* changed afterwards.
C21_OneEmissionPerTrade ==
    [][/\ EmissionsKept
       /\ (TradeStep /\ WellFormedTrade(msg'.response)) => EmitsOnce
       /\ ~(TradeStep /\ WellFormedTrade(msg'.response)) => emitted' = emitted]_vars

\* C21 witness: two trades were emitted, one of each key, the second by the
\* last pass, and a message that raised was received and emitted nothing.
C21_Witness ==
    /\ Len(emitted) = 2
    /\ emitted[1].contract # emitted[2].contract
    /\ errors = 1
    /\ msg.op = "pass" /\ msg.outcome = "emitted"

\* the step is a pass that received a payload and raised while handling it
FailedStep == ReceivedStep /\ msg'.outcome = "error"

\* the quotes a key had are still there, in their order, after the step: all
\* of them, or all but the oldest where the list was full and the message of
\* the step brought a quote of the key
Retained(k) ==
    /\ k \in DOMAIN quote_history'
    /\ \E d \in {0, 1} :
         /\ d = 1 => Len(quote_history[k]) = history_window
         /\ Len(quote_history'[k]) >= Len(quote_history[k]) - d
         /\ \A i \in 1 .. Len(quote_history[k]) - d :
                quote_history'[k][i] = quote_history[k][i + d]

\* C24: failure isolation. A pass that raises while handling the message it
\* received (undecodable payload, trade without price or size) reports one
\* error, leaves the loop running, emits no trade and keeps the quotes
\* recorded from earlier messages.
C24_FailureIsolation ==
    [][FailedStep =>
          /\ errors' = errors + 1
          /\ link'.loop = "looping" /\ link'.running
          /\ emitted' = emitted
          /\ \A k \in DOMAIN quote_history : Retained(k)]_vars

\* C24 witness: after a message that raised, with a quote stored before it,
\* the loop went on and classified a trade against the stored quote.
C24_Witness ==
    /\ errors >= 1
    /\ msg.op = "pass" /\ msg.outcome = "emitted"
    /\ emitted[Len(emitted)].trade.side = "BUY"
    /\ link.loop = "looping"

\* the last n entries of a list
LastOf(list, n) ==
    IF Len(list) <= n THEN list ELSE SubSeq(list, Len(list) - n + 1, Len(list))

\* C28: bounded quote history. In every state of the loop, the history of
\* each contract key holds at most history_window entries, and they are the
\* quotes of that key the loop received last, in arrival order; the keys with a
\* history are the keys a quote was received for, so a quote of one key leaves
\* the history of another key as it was.
C28_BoundedQuoteHistory ==
    /\ DOMAIN quote_history = DOMAIN arrived
    /\ \A k \in DOMAIN arrived :
         /\ Len(quote_history[k]) <= history_window
         /\ quote_history[k] = LastOf(arrived[k], history_window)

\* C28 witness: a key has received more quotes than the window holds, not all
\* alike and not all at one time, and another key has a history of its own.
C28_Witness ==
    \E k \in DOMAIN arrived :
        /\ Len(arrived[k]) > history_window
        /\ arrived[k][1][1] < arrived[k][Len(arrived[k])][1]
        /\ arrived[k][1][2] # arrived[k][2][2]
        /\ DOMAIN arrived # {k}

\* C30: shutdown liveness. After WebSocketManager.close() the receive loop of
\* run() eventually exits.
C30_LoopExitsAfterClose == link.closed ~> (link.loop = "exited")

\* what close() does reach: the manager's own flag and the connection, while
\* the flag the loop tests stays set and the loop keeps turning
C30_CloseLeavesLoopRunning ==
    link.closed => (~link.ws_running /\ link.running /\ link.loop = "looping")

----------------------------------------------------------------------------
(* fit_svi_slice.residuals and the objective handed to minimize. The total  *)
(* variances straight_svi gives the current and the previous parameters at  *)
(* each strike are not computed from the parameters: they are any values of *)
(* a small set, as are the observed variances and the butterfly penalty.    *)
(* All are integers of one unit, so the sums and squares are exact.         *)

\* the positions of the strikes of a slice: the fewest the fit accepts
SliceStrikes == 1 .. 5
\* total variances, observed or fitted, at a strike
TotalVariances == {10, 30}
\* np.sum of butterfly_arbitrage over the strikes
ButterflyPenalties == {0, 1}
\* prev_params is None
NoSlice == <<>>

\* calendar_arbitrage with the slices the other way round
calendar_arbitrage_reversed(w1, w2) == IF w1 - w2 > 0 THEN w1 - w2 ELSE 0

\* calendar_arbitrage(chi1, chi2, k), on w1 = straight_svi(k, *chi1) and
\* w2 = straight_svi(k, *chi2): max(0, w2 - w1)
calendar_arbitrage(w1, w2) == IF w2 - w1 > 0 THEN w2 - w1 ELSE 0

\* line 95: calendar_arbitrage(chi, prev_params, k) for each k, chi being the
\* current parameters
calendar_terms(w, prev_w) ==
    [ i \in DOMAIN w |-> calendar_arbitrage(w[i], prev_w[i]) ]

\* lines 93-95: cal_penalty
cal_penalty_of(w, prev_w) ==
    IF prev_w = NoSlice THEN 0 ELSE seq_sum(calendar_terms(w, prev_w))

\* lines 87 and 98: fit_error + 10*but_penalty + 100*cal_penalty, the
\* penalties being added to every component of fit_error
total_error(v, w, but_penalty, cal_penalty) ==
    [ i \in DOMAIN v |-> (v[i] - w[i]) + 10 * but_penalty + 100 * cal_penalty ]

\* line 120: np.sum(residuals(x)**2)
objective(errors_at) ==
    seq_sum([ i \in DOMAIN errors_at |-> errors_at[i] * errors_at[i] ])

InitObjective ==
    /\ fit_call \in [ op : {"drawn"},
                      v : [SliceStrikes -> TotalVariances],
                      w : [SliceStrikes -> TotalVariances],
                      prev_w : [SliceStrikes -> TotalVariances] \cup {NoSlice},
                      but_penalty : ButterflyPenalties ]
    /\ LoopAtRest
    /\ ChartAtRest
    /\ quotes = <<>>
    /\ updates = 0
    /\ produced_by = <<>>
    /\ latest = <<>>
    /\ call = [op |-> "none"]
    /\ spot_prices = <<>>
    /\ last_spot_update = <<>>
    /\ threads = <<>>
    /\ quote_history = <<>>
    /\ clock = 0
    /\ quota = 0
    /\ last = [op |-> "none"]
    /\ reference = <<>>
    /\ args = [trade_price |-> 0]
    /\ side = "NONE"

\* one evaluation of the objective of line 120 at the drawn values
Residuals ==
    /\ fit_call.op = "drawn"
    /\ LET cal_penalty == cal_penalty_of(fit_call.w, fit_call.prev_w)
           total == total_error(fit_call.v, fit_call.w, fit_call.but_penalty, cal_penalty)
       IN  fit_call' = [ op |-> "residuals",
                         v |-> fit_call.v, w |-> fit_call.w, prev_w |-> fit_call.prev_w,
                         but_penalty |-> fit_call.but_penalty,
                         cal_terms |-> IF fit_call.prev_w = NoSlice THEN NoSlice
                                       ELSE calendar_terms(fit_call.w, fit_call.prev_w),
                         cal_penalty |-> cal_penalty,
                         total_error |-> total,
                         value |-> objective(total) ]
    /\ UNCHANGED <<classify_vars, stream_vars, surface_vars, call, cache_vars, thread_vars,
                   loop_vars, chart_vars>>

NextObjective == Residuals

SpecObjective == InitObjective /\ [][NextObjective]_vars

\* the objective was evaluated
Evaluated == fit_call.op = "residuals"

\* C27: calendar penalty direction. With a previous slice supplied, the
\* calendar penalty contributed at a strike is positive exactly when the
\* current slice's total variance at that strike is less than the previous
\* slice's and zero when it is greater or equal, and cal_penalty is the sum of
\* the contributions; with no previous slice the calendar penalty is zero.
C27_CalendarPenaltyDirection ==
    Evaluated =>
        IF fit_call.prev_w = NoSlice THEN fit_call.cal_penalty = 0
        ELSE /\ \A i \in SliceStrikes :
                  /\ fit_call.w[i] < fit_call.prev_w[i] => fit_call.cal_terms[i] > 0
                  /\ fit_call.w[i] >= fit_call.prev_w[i] => fit_call.cal_terms[i] = 0
             /\ fit_call.cal_penalty = seq_sum(fit_call.cal_terms)

\* C27 witness: with a previous slice, one strike where the current total
\* variance is below the previous one and one where it is above.
C27_Witness ==
    /\ Evaluated /\ fit_call.prev_w # NoSlice
    /\ \E i, j \in SliceStrikes :
         /\ fit_call.w[i] < fit_call.prev_w[i] /\ fit_call.cal_terms[i] > 0
         /\ fit_call.w[j] > fit_call.prev_w[j] /\ fit_call.cal_terms[j] = 0

\* C26: the objective is the sum of squared fit residuals plus the penalty
\* terms: for the residuals of the evaluation, of either sign, no larger
\* butterfly or calendar penalty gives a smaller objective value.
C26_PenaltyNeverLowersObjective ==
    Evaluated =>
        \A but_penalty \in ButterflyPenalties, more \in {0, 20} :
            but_penalty >= fit_call.but_penalty =>
                objective(total_error(fit_call.v, fit_call.w, but_penalty,
                                      fit_call.cal_penalty + more))
                    >= fit_call.value

\* C26, where no fit residual is negative
C26_PenaltyNeverLowersForNonNegativeResiduals ==
    (Evaluated /\ \A i \in SliceStrikes : fit_call.v[i] >= fit_call.w[i]) =>
        \A but_penalty \in ButterflyPenalties, more \in {0, 20} :
            but_penalty >= fit_call.but_penalty =>
                objective(total_error(fit_call.v, fit_call.w, but_penalty,
                                      fit_call.cal_penalty + more))
                    >= fit_call.value

----------------------------------------------------------------------------
(* VolatilitySurfaceChart: the widget that owns a VolatilitySurface, plots  *)
(* it with update_surface and is driven by a QTimer, by its selectors and   *)
(* by update_quote. All of it runs on the GUI thread: `stack` is the call   *)
(* stack of that thread, empty when the thread is back in the event loop.   *)
(* A slot connected to a signal of the same thread is called when the       *)
(* signal is emitted, inside the call that emits it; a timeout, a user      *)
(* action or a quote is handed to its slot by the event loop, that is, when *)
(* the stack is empty. A combo box emits currentTextChanged when its        *)
(* current text changes: clear() of a box with a current text, addItems on  *)
(* an empty box, setCurrentText of another item.                            *)

\* the text of a selector that has no current item (labels are numbers here)
NoText == 0

\* the contracts, quotes and solver results of the quotes the chart is given
ChartContracts ==
    { [root |-> "X", strike |-> 100000, expiration |-> 20250221, right |-> "C"],
      [root |-> "X", strike |-> 100000, expiration |-> 20250321, right |-> "C"],
      [root |-> "Y", strike |-> 100000, expiration |-> 20250221, right |-> "C"] }
ChartQuotes == { [bid |-> 100, ask |-> 110], EmptyDict }
ChartSolverOutcomes == { [ok |-> FALSE], [ok |-> TRUE, vol |-> 20] }

\* a call of a slot of the chart, with the update_surface calls it has still
\* to make (the expiry text each of them will read)
HandlerFrame(fn, todo) == [fn |-> fn, todo |-> todo]
\* a call of update_surface
PlotFrame(expiry) == [fn |-> "update_surface", expiry |-> expiry]

\* runs of update_surface on the stack
active_runs(stack) ==
    Cardinality({ i \in DOMAIN stack : stack[i].fn = "update_surface" })

\* the event loop hands out an event when the thread has returned to it
deliverable(stack) == stack = <<>>

\* expiry_selector.clear() and addItems(expiries): the emissions of
\* currentTextChanged, each calling on_expiry_changed and so update_surface
refill_signals(current_expiry, expiries) ==
    (IF current_expiry # NoText THEN <<NoText>> ELSE <<>>)
        \o (IF expiries # <<>> THEN <<expiries[1]>> ELSE <<>>)

\* the text of the expiry selector after clear() and addItems(expiries)
refilled_text(expiries) == IF expiries # <<>> THEN expiries[1] ELSE NoText

\* a label is an item of the list
InList(label, list) == \E i \in DOMAIN list : list[i] = label

\* gui.py lines 200-204: the previous selection is restored when it is still
\* an item
restored_text(current_expiry, expiries) ==
    IF InList(current_expiry, expiries) THEN current_expiry ELSE refilled_text(expiries)

\* on_root_changed(root), lines 66-75: the update_surface calls it makes
on_root_changed_plots(current_expiry, expiries) ==
    refill_signals(current_expiry, expiries) \o <<refilled_text(expiries)>>

\* update_quote, lines 191-204: the update_surface calls it makes
update_quote_plots(current_expiry, expiries) ==
    refill_signals(current_expiry, expiries)
        \o (IF restored_text(current_expiry, expiries) # refilled_text(expiries)
            THEN <<restored_text(current_expiry, expiries)>> ELSE <<>>)

\* on_expiry_filter_changed, lines 234-243: the bucket of the selected root
\* replaced by its entries that expire today
filtered_quotes(store, root, state) ==
    IF ~state /\ root \in DOMAIN store
    THEN [store EXCEPT ![root] =
             [ key \in { k \in DOMAIN store[root] : k[2] = Today } |-> store[root][key] ]]
    ELSE store

\* update_surface reaches get_spot_price (volatility_surface.py line 155)
plot_asks_spot(store, root, expiry) ==
    /\ root # "" /\ expiry # NoText
    /\ root \in DOMAIN store /\ store[root] # EmptyDict

InitChart ==
    /\ chart = [ stack |-> <<>>, roots |-> {}, root |-> "", expiries |-> <<>>,
                 expiry |-> NoText, timer |-> "waiting", held |-> FALSE ]
    /\ quotes = <<>>
    /\ updates = 0
    /\ produced_by = <<>>
    /\ latest = <<>>
    /\ call = [op |-> "none"]
    /\ spot_prices = <<>>
    /\ last_spot_update = <<>>
    /\ threads = <<>>
    /\ fit_call = [op |-> "none"]
    /\ LoopAtRest
    /\ quote_history = <<>>
    /\ clock = 0
    /\ quota = 0
    /\ last = [op |-> "none"]
    /\ reference = <<>>
    /\ args = [trade_price |-> 0]
    /\ side = "NONE"

\* what no step of the chart touches
ChartFrame ==
    UNCHANGED <<classify_vars, stream_vars, thread_vars, fit_vars, loop_vars>>

\* the timer's interval of 1000 ms runs out, whatever the GUI thread is doing;
\* `held` notes a timeout that fell due while update_surface was running
TimerDue ==
    /\ chart.timer = "waiting"
    /\ chart' = [chart EXCEPT !.timer = "due",
                              !.held = active_runs(chart.stack) > 0]
    /\ UNCHANGED <<surface_vars, call, cache_vars>>
    /\ ChartFrame

\* the event loop emits the timeout: update_surface is the slot (line 60)
TimerTimeout ==
    /\ chart.timer = "due"
    /\ deliverable(chart.stack)
    /\ chart' = [chart EXCEPT !.timer = "waiting",
                              !.held = FALSE,
                              !.stack = Append(@, PlotFrame(chart.expiry))]
    /\ UNCHANGED <<surface_vars, call, cache_vars>>
    /\ ChartFrame

\* update_quote(contract, quote), lines 176-229, up to its calls of
\* update_surface: a new root is added to the root selector (and selected,
\* through on_root_changed, when the selector was empty), the quote is handed
\* to vol_surface.update_quote, the expiry selector is refilled
ChartUpdateQuote(contract, quote_data, late, reported, implied_vol) ==
    /\ deliverable(chart.stack)
    /\ UpdateQuote(contract, quote_data, late, reported, implied_vol)
    /\ LET root == contract.root
           selected == IF chart.root = "" THEN root ELSE chart.root
           before == get_expiries(quotes, root)
           first_plots == IF chart.root = "" THEN on_root_changed_plots(chart.expiry, before)
                          ELSE <<>>
           current_expiry == IF chart.root = "" THEN refilled_text(before) ELSE chart.expiry
           expiries == get_expiries(quotes', root)
       IN  chart' =
             IF root = selected
             THEN [chart EXCEPT
                     !.roots = @ \cup {root},
                     !.root = selected,
                     !.expiries = expiries,
                     !.expiry = restored_text(current_expiry, expiries),
                     !.stack = Append(@, HandlerFrame("update_quote",
                                  first_plots \o update_quote_plots(current_expiry, expiries)))]
             ELSE [chart EXCEPT
                     !.roots = @ \cup {root},
                     !.stack = Append(@, HandlerFrame("update_quote", <<>>))]

\* the user picks another root: on_root_changed(root), lines 66-75
SelectRoot(root) ==
    /\ deliverable(chart.stack)
    /\ root \in chart.roots /\ root # chart.root
    /\ LET expiries == get_expiries(quotes, root)
       IN  chart' = [chart EXCEPT
                       !.root = root,
                       !.expiries = expiries,
                       !.expiry = refilled_text(expiries),
                       !.stack = Append(@, HandlerFrame("on_root_changed",
                                    on_root_changed_plots(chart.expiry, expiries)))]
    /\ UNCHANGED <<surface_vars, call, cache_vars>>
    /\ ChartFrame

\* the user picks another expiry: on_expiry_changed(expiry), lines 77-81
SelectExpiry(expiry) ==
    /\ deliverable(chart.stack)
    /\ InList(expiry, chart.expiries) /\ expiry # chart.expiry
    /\ chart' = [chart EXCEPT
                   !.expiry = expiry,
                   !.stack = Append(@, HandlerFrame("on_expiry_changed", <<expiry>>))]
    /\ UNCHANGED <<surface_vars, call, cache_vars>>
    /\ ChartFrame

\* the user toggles "Stream All Expiries": on_expiry_filter_changed(state),
\* lines 231-247
ToggleFilter(state) ==
    /\ deliverable(chart.stack)
    /\ quotes' = filtered_quotes(quotes, chart.root, state)
    /\ chart' = [chart EXCEPT
                   !.stack = Append(@, HandlerFrame("on_expiry_filter_changed",
                                                    <<chart.expiry>>))]
    /\ UNCHANGED <<updates, produced_by, latest, call, cache_vars>>
    /\ ChartFrame

\* the slot on top of the stack calls update_surface
CallUpdateSurface ==
    /\ chart.stack # <<>>
    /\ LET top == chart.stack[Len(chart.stack)]
       IN  /\ top.fn # "update_surface"
           /\ top.todo # <<>>
           /\ chart' = [chart EXCEPT
                          !.stack = SubSeq(@, 1, Len(@) - 1)
                                       \o << HandlerFrame(top.fn, Tail(top.todo)),
                                             PlotFrame(Head(top.todo)) >>]
    /\ UNCHANGED <<surface_vars, call, cache_vars>>
    /\ ChartFrame

\* the slot on top of the stack returns
ReturnFromSlot ==
    /\ chart.stack # <<>>
    /\ LET top == chart.stack[Len(chart.stack)]
       IN  /\ top.fn # "update_surface"
           /\ top.todo = <<>>
           /\ chart' = [chart EXCEPT !.stack = SubSeq(@, 1, Len(@) - 1)]
    /\ UNCHANGED <<surface_vars, call, cache_vars>>
    /\ ChartFrame

\* update_surface, lines 83-150, runs and returns: it reads the selectors and,
\* with a root and an expiry selected, get_surface_data, which polls the spot
\* of a root that has points
UpdateSurface(late, reported) ==
    /\ chart.stack # <<>>
    /\ LET top == chart.stack[Len(chart.stack)]
       IN  /\ top.fn = "update_surface"
           /\ IF plot_asks_spot(quotes, chart.root, top.expiry)
              THEN /\ spot_prices' = refreshed_prices(spot_prices, last_spot_update,
                                                      chart.root, late, reported)
                   /\ last_spot_update' = refreshed_times(last_spot_update, chart.root,
                                                          late, "now")
              ELSE UNCHANGED cache_vars
           /\ chart' = [chart EXCEPT !.stack = SubSeq(@, 1, Len(@) - 1)]
    /\ UNCHANGED <<surface_vars, call>>
    /\ ChartFrame

NextChart ==
    \/ TimerDue
    \/ TimerTimeout
    \/ \E contract \in ChartContracts, quote_data \in ChartQuotes :
         \E late \in IF /\ asks_spot(contract, quote_data)
                        /\ contract.root \in DOMAIN last_spot_update
                     THEN BOOLEAN ELSE {FALSE} :
           \E reported \in IF /\ asks_spot(contract, quote_data)
                              /\ needs_refresh(last_spot_update, contract.root, late)
                           THEN SpotOutcomes ELSE {0} :
             \E implied_vol \in IF /\ spot_seen(contract, quote_data, late, reported) # 0
                                   /\ ~expired(contract.expiration)
                                THEN ChartSolverOutcomes ELSE {[ok |-> FALSE]} :
                 ChartUpdateQuote(contract, quote_data, late, reported, implied_vol)
    \/ \E root \in {"X", "Y"} : SelectRoot(root)
    \/ \E expiry \in {20250221, 20250321} : SelectExpiry(expiry)
    \/ \E state \in BOOLEAN : ToggleFilter(state)
    \/ CallUpdateSurface
    \/ ReturnFromSlot
    \/ \E late \in BOOLEAN, reported \in SpotOutcomes : UpdateSurface(late, reported)

SpecChart == InitChart /\ [][NextChart]_vars

----------------------------------------------------------------------------
(* Claims about the chart                                                   *)

\* the step is a call of the store's own update operation
OwnerUpdates == call'.op = "update_quote" /\ updates' = updates + 1

\* C22: the contents of the surface store are changed only by the update
\* operation of its owner, VolatilitySurface.update_quote; no operation of the
\* rendering layer adds, removes or replaces an entry of the store.
C22_ExclusiveOwnership ==
    [][ quotes' # quotes => OwnerUpdates ]_vars

\* the rendering layer has just emptied a bucket that held a point
FilterEmptiedBucket ==
    /\ chart.stack # <<>>
    /\ chart.stack[1].fn = "on_expiry_filter_changed"
    /\ chart.root \in DOMAIN quotes
    /\ quotes[chart.root] = EmptyDict
    /\ \E pair \in DOMAIN produced_by : pair[1] = chart.root

\* what holds of C22: outside on_expiry_filter_changed, the steps of the chart
\* leave the store to update_quote
C22_OnlyTheFilterWritesTheStore ==
    [][ (quotes' # quotes /\ ~OwnerUpdates)
            => (chart'.stack # <<>> /\ chart'.stack[Len(chart'.stack)].fn = "on_expiry_filter_changed") ]_vars

\* C23, the part about overlap: in no reachable state are two runs of
\* update_surface active at once.
C23_NoTwoRunsAtOnce == active_runs(chart.stack) <= 1

\* C23, the part about nesting: while a run of update_surface is active, no
\* step starts another one.
C23_NoRunStartsDuringARun ==
    [][ active_runs(chart.stack) > 0
            => active_runs(chart'.stack) <= active_runs(chart.stack) ]_vars

\* the step starts the run of the timeout that fell due during a run
HeldTimeoutRuns ==
    /\ chart.held /\ chart.timer = "due" /\ chart'.timer = "waiting"
    /\ active_runs(chart'.stack) > active_runs(chart.stack)

\* C23: the periodic recomputation is not re-entrant: two runs of
\* update_surface are never active at once, no run starts while one is
\* active, and a timeout that falls due while a run is in progress is skipped:
\* it starts no run, then or later.
C23_NotReentrantTicksSkipped ==
    /\ [](active_runs(chart.stack) <= 1)
    /\ [][ active_runs(chart.stack) > 0
               => active_runs(chart'.stack) <= active_runs(chart.stack) ]_vars
    /\ [][ ~HeldTimeoutRuns ]_vars

\* a timeout is due while update_surface runs
TimeoutHeldDuringRun == chart.held /\ active_runs(chart.stack) = 1

====
